---------------------------- MODULE Spec2Model ----------------------------
(***************************************************************************)
(* Renewable Site Assessment Engine of PiOneData/MarketIntelli.            *)
(*                                                                         *)
(* Modelled code:                                                          *)
(*   backend/app/domains/solar_assessment/services/assessment_service.py   *)
(*       DiskCache, AssessmentService (the "app" service)                  *)
(*   backend/app/domains/solar_assessment/routes/solar_assessment.py       *)
(*       _get_assessment_service, api_analyze, _analyze_fallback, ...      *)
(*   backend/assessment_service.py, backend/main.py                        *)
(*       the stand-alone ("legacy") service and its /analyze endpoint      *)
(*                                                                         *)
(* Units.  Python floats are modelled in fixed point:                      *)
(*   coordinates   : 1e-5 degree (plus the side of a rounding tie on which *)
(*                   the binary double lies)                               *)
(*   scores        : tenths of a point (90 -> 900, 37.9 -> 379)            *)
(* Python's None is the record None; every optional value is a record so   *)
(* that values of different shapes can be compared.                        *)
(***************************************************************************)
EXTENDS Integers, Sequences, FiniteSets, TLC

VARIABLES
    table,      \* rows of the sqlite table `cache` (key, value, timestamp)
    now,        \* the wall clock the table's CURRENT_TIMESTAMP reads
    lock,       \* holder of sqlite's write lock (a client), or "free"
    cpc,        \* cache client -> "idle" | "commit"   (SpecCache)
    pend,       \* cache client -> the INSERT OR REPLACE it has executed
    ret,        \* what the last DiskCache.get call returned (set returns None)
    committed,  \* history: key -> document of the last committed set
    ops,        \* number of top-level calls started (bounded per specification)
    svc,        \* the module global _assessment_service (None or a service)
    gee,        \* rows of the table gee_json_credentials
    req,        \* the /analyze request in flight: its position and locals
    th,         \* analyzer -> the call of analyze_<domain> in progress
    last,       \* history: the most recent analyzer step and what storage did
    prev,       \* history: analyzer -> its previous completed call
    resp,       \* what the last /analyze request sent back
    lru,        \* the stand-alone service's lru_cache memo tables
    calc,       \* the scoring function last applied: its inputs and result
    txn,        \* request -> its open database transaction, or its position
    eelib       \* the ee client library's state and the constructions so far

cacheVars == <<now, lock, cpc, pend, ret, committed>>

appVars == <<svc, gee, req, th, last, prev, resp, lru>>

sideVars == <<calc, txn, eelib>>

vars == <<table, now, lock, cpc, pend, ret, committed, ops,
          svc, gee, req, th, last, prev, resp, lru, calc, txn, eelib>>

---------------------------------------------------------------------------
(* Bounds of the model (not program constants).                            *)
MaxOps == 3
MaxTime == 1

None == [kind |-> "None"]

(* The requests to the credential endpoints that may be in flight together, *)
(* and a request that has no transaction open.                              *)
CredClients == {"r1", "r2"}

TxnIdle == [pc |-> "idle", out |-> "none"]

---------------------------------------------------------------------------
(* Coordinates.  A coordinate is a double; the model keeps its value in    *)
(* units of 1e-5 degree and, because a decimal tie k.kkkk5 is not a        *)
(* double, the side of the tie on which the double lies: "away" (from      *)
(* zero), "toward", or "exact" (the tie is representable, as 0.03125 is).  *)
Coord(u, side) == [u |-> u, side |-> side]

Abs(x) == IF x < 0 THEN -x ELSE x

(* round(x, 4): correctly rounded on the double's value, half-to-even on   *)
(* an exact tie; the sign is kept, so round(-0.00001, 4) is -0.0.          *)
(* The result is [neg, mag] with mag in units of 1e-4 degree.              *)
Round4Trunc(c) == [neg |-> c.u < 0, mag |-> Abs(c.u) \div 10]

Round4(c) ==
    LET m == Abs(c.u)
        q == m \div 10
        r == m % 10
        up == \/ r > 5
              \/ r = 5 /\ c.side = "away"
              \/ r = 5 /\ c.side = "exact" /\ q % 2 = 1
    IN  [neg |-> c.u < 0, mag |-> IF up THEN q + 1 ELSE q]

(* str() of a float inside the f-string: "-0.0" and "0.0" are different    *)
(* texts, as are any two different magnitudes.                             *)
FloatStr(r) == <<IF r.neg THEN "-" ELSE "", r.mag>>

(* hashlib.md5(...).hexdigest(): modelled as collision-free.               *)
Md5(s) == <<"md5", s>>

GetKeyShared(service, lat, lon) ==
    Md5(<<"", FloatStr(Round4(lat)), FloatStr(Round4(lon))>>)

(* DiskCache._get_key *)
GetKey(service, lat, lon) ==
    Md5(<<service, FloatStr(Round4(lat)), FloatStr(Round4(lon))>>)

---------------------------------------------------------------------------
(* JSON.  Every document the analyzers build is made of dicts with string  *)
(* keys, lists, strings, ints, floats and None, which json.dumps and       *)
(* json.loads take to a text and back unchanged; a text that is not JSON   *)
(* makes json.loads raise.                                                 *)
JsonDumps(doc) == [kind |-> "text", json |-> doc]
JsonLoadsLossy(text) == [kind |-> "dict", keys |-> {}]

JsonLoads(text) == text.json

(* Python truthiness of a cached document (`if cached:`). *)
Truthy(doc) == doc # None /\ doc.keys # {}

---------------------------------------------------------------------------
(* The sqlite table.  A row is [key, value, ts].                           *)
RowsOf(t, key) == {row \in t : row.key = key}

(* INSERT OR REPLACE INTO cache (key, value) VALUES (?, ?): the PRIMARY    *)
(* KEY conflict deletes the old row; timestamp takes its default.          *)
SqlInsertPlain(t, key, value, ts) ==
    IF RowsOf(t, key) # {} THEN t
    ELSE t \cup {[key |-> key, value |-> value, ts |-> ts]}

SqlInsertOrReplace(t, key, value, ts) ==
    (t \ RowsOf(t, key)) \cup {[key |-> key, value |-> value, ts |-> ts]}

(* SELECT value FROM cache WHERE key = ?  ... fetchone() *)
SqlSelectFresh(t, key) ==
    LET live == {row \in RowsOf(t, key) : row.ts = now}
    IN  IF live = {} THEN None ELSE (CHOOSE row \in live : TRUE).value

SqlSelectValue(t, key) ==
    IF RowsOf(t, key) = {} THEN None
    ELSE (CHOOSE row \in RowsOf(t, key) : TRUE).value

(* DiskCache.get: what it returns, `fault` being what the storage does     *)
(* during this call: "ok", "io" (connect/execute raises) or "decode" (the  *)
(* stored text is unreadable and json.loads raises).  An exception leaving *)
(* get is the record [kind |-> "raise"].                                   *)
Raise(what) == [kind |-> "raise", what |-> what]

DiskCacheGetUnguarded(t, service, lat, lon, fault) ==
    LET text == SqlSelectValue(t, GetKey(service, lat, lon))
    IN  IF fault # "ok" THEN Raise("cache")
        ELSE IF text = None THEN None
        ELSE JsonLoads(text)

DiskCacheGet(t, service, lat, lon, fault) ==
    LET text == SqlSelectValue(t, GetKey(service, lat, lon))
    IN  IF fault = "io" THEN None
        ELSE IF text = None THEN None
        ELSE IF fault = "decode" THEN None
        ELSE JsonLoads(text)

GetFaults == {"ok", "io", "decode"}
SetFaults == {"ok", "io"}

(* DiskCache.set as one transaction: the table it leaves.  `fault` "io"    *)
(* stands for any exception inside the try block (connect, execute, a      *)
(* busy database, commit); the `with` block then rolls back.               *)
DiskCacheSetNoRollback(t, service, lat, lon, value, fault) ==
    IF fault = "ok"
    THEN SqlInsertOrReplace(t, GetKey(service, lat, lon), JsonDumps(value), now)
    ELSE SqlInsertOrReplace(t, GetKey(service, lat, lon), JsonDumps(None), now)

DiskCacheSet(t, service, lat, lon, value, fault) ==
    IF fault = "ok"
    THEN SqlInsertOrReplace(t, GetKey(service, lat, lon), JsonDumps(value), now)
    ELSE t

---------------------------------------------------------------------------
(* Inputs of the model: the services, and sample coordinates around the    *)
(* 4-decimal grid lines 0.0000, 0.0001 and 0.0002 of latitude and          *)
(* 77.0000 / 77.0001 of longitude.                                         *)
Services == {"wind", "solar", "water"}

Lats == { Coord(-4, "toward"), Coord(-1, "toward"), Coord(0, "exact"),
          Coord(4, "toward"),
          Coord(5, "toward"), Coord(5, "away"), Coord(6, "toward"),
          Coord(14, "toward"), Coord(15, "exact"), Coord(16, "toward") }

Lons == { Coord(7700004, "toward"), Coord(7700006, "toward"),
          Coord(7700014, "toward") }

KeysOf(ss, las, los) == {GetKey(s, la, lo) : s \in ss, la \in las, lo \in los}

(* Documents handed to DiskCache.set by the cache clients of SpecCache.    *)
CacheDocs == { [kind |-> "dict", keys |-> {"score"}, score |-> 900],
               [kind |-> "dict", keys |-> {"score"}, score |-> 100] }

CacheClients == {"t1", "t2"}
CacheServices == {"wind", "solar"}
CacheLats == { Coord(4, "toward"), Coord(6, "toward"), Coord(14, "toward") }
CacheLons == { Coord(7700004, "toward") }
CachePoints == CacheServices \X CacheLats \X CacheLons
CacheKeys == KeysOf(CacheServices, CacheLats, CacheLons)

---------------------------------------------------------------------------
(* Python dicts.  A dict is a record with kind "dict" and the set `keys`   *)
(* of its keys; the fields the model follows are record fields.            *)
EmptyDict == [kind |-> "dict", keys |-> {}]

(* d.get(k, default) *)
DictGet(d, k, default) == IF k \in d.keys THEN d[k] ELSE default

(* A JSON number, as against null (None). *)
Num(x) == [kind |-> "num", x |-> x]

(* `values.get(band, 0) or 0`: an absent or null band reads as 0. *)
OrZero(b) == IF b = None THEN 0 ELSE b.x

---------------------------------------------------------------------------
(* Earth Engine.  What reduceRegion(...).getInfo() gives an analyzer: it   *)
(* raises (network, quota, auth), or returns the band values, each a       *)
(* number or null where the dataset has no pixel.                          *)
(* Units: pd W/m2, slope degree, ghi kWh/m2/year, grace cm, pdsi 1.        *)
UpError == [kind |-> "error"]

UpCrash == [kind |-> "crash"]

UpValues(v) == [kind |-> "values", v |-> v]

EeWind == { UpError,
            UpValues([pd |-> None, slope |-> None]),
            UpValues([pd |-> Num(650), slope |-> Num(20)]) }

EeSolar == { UpError,
             UpValues([ghi |-> None]),
             UpValues([ghi |-> Num(2100)]) }

EeWater == { UpError,
             UpValues([grace |-> None, pdsi |-> None]),
             UpValues([grace |-> Num(20), pdsi |-> Num(3)]) }

EeOutcomes(d) ==
    CASE d = "wind" -> EeWind
      [] d = "solar" -> EeSolar
      [] d = "water" -> EeWater

(* The score bands of analyze_wind / _compute_wind_from_live_data and of   *)
(* analyze_solar / _fetch_pvgis_solar, in points.                          *)
WindScore(pd) ==
    IF pd >= 600 THEN 90
    ELSE IF pd >= 400 THEN 75
    ELSE IF pd >= 300 THEN 60
    ELSE IF pd >= 200 THEN 45
    ELSE IF pd >= 100 THEN 30
    ELSE 10

WindGradeSwapped(pd) ==
    IF pd >= 600 THEN "A+"
    ELSE IF pd >= 400 THEN "A"
    ELSE IF pd >= 300 THEN "C"
    ELSE IF pd >= 200 THEN "B"
    ELSE IF pd >= 100 THEN "D"
    ELSE "F"

WindGrade(pd) ==
    IF pd >= 600 THEN "A+"
    ELSE IF pd >= 400 THEN "A"
    ELSE IF pd >= 300 THEN "B"
    ELSE IF pd >= 200 THEN "C"
    ELSE IF pd >= 100 THEN "D"
    ELSE "F"

SolarScore(ghi) ==
    IF ghi >= 2000 THEN 90
    ELSE IF ghi >= 1800 THEN 75
    ELSE IF ghi >= 1600 THEN 60
    ELSE IF ghi >= 1400 THEN 45
    ELSE 25

SolarGrade(ghi) ==
    IF ghi >= 2000 THEN "A+"
    ELSE IF ghi >= 1800 THEN "A"
    ELSE IF ghi >= 1600 THEN "B"
    ELSE IF ghi >= 1400 THEN "C"
    ELSE "D"

ClampBelow(v, lo, hi) == IF v < lo THEN lo ELSE v

Clamp(v, lo, hi) == IF v < lo THEN lo ELSE IF v > hi THEN hi ELSE v

(* analyze_water's composite, in tenths of a point.  The sample pdsi       *)
(* values are multiples of 3, for which (pdsi + 6) / 12 * 100 is whole and  *)
(* the sum has one decimal, so round(., 1) changes nothing.                *)
WaterComposite(grace, pdsi) ==
    LET grace_norm == Clamp(grace + 50, 0, 100)
        pdsi_norm == Clamp(((pdsi + 6) * 100) \div 12, 0, 100)
    IN  5 * grace_norm + 5 * pdsi_norm

WaterInterpretation(composite) ==
    IF composite < 300 THEN "Water-stressed region"
    ELSE IF composite < 600 THEN "Moderate water availability"
    ELSE "Good water availability"

(* The result dicts.  Scores are in tenths of a point.                     *)
WindKeys == {"metadata", "resource", "feasibility", "insights", "turbine",
             "score", "terrain"}

WindResult(v) ==
    [kind |-> "dict", keys |-> WindKeys,
     score |-> 10 * WindScore(OrZero(v.pd)),
     grade |-> WindGrade(OrZero(v.pd)),
     terrain |-> [kind |-> "dict", keys |-> {"slope", "elevation"},
                  slope |-> OrZero(v.slope)]]

SolarResult(v) ==
    [kind |-> "dict", keys |-> {"score", "resource", "metadata"},
     score |-> 10 * SolarScore(OrZero(v.ghi)),
     grade |-> SolarGrade(OrZero(v.ghi))]

WaterResult(v) ==
    LET composite == WaterComposite(OrZero(v.grace), OrZero(v.pdsi))
    IN  [kind |-> "dict",
         keys |-> {"composite_risk_score", "grace_anomaly", "pdsi",
                   "interpretation", "metadata"},
         composite_risk_score |-> composite,
         interpretation |-> WaterInterpretation(composite)]

(* The body of an analyzer's try block after getInfo() has answered. *)
AnalyzerResult(d, v) ==
    CASE d = "wind" -> WindResult(v)
      [] d = "solar" -> SolarResult(v)
      [] d = "water" -> WaterResult(v)

(* The key under which analyze() and api_analyze read a domain's score. *)
ScoreKey(d) == IF d = "water" THEN "composite_risk_score" ELSE "score"

(* round(0.35 s + 0.35 w + 0.30 wt, 1), in tenths.  The weights are not    *)
(* doubles, so when the exact sum is a decimal tie x.x5 the computed one    *)
(* may lie on either side: both neighbours are possible results.           *)
CompositeScoresWaterHeavy(s_score, w_score, wt_score) ==
    LET n == 30 * s_score + 35 * w_score + 35 * wt_score
        q == n \div 100
        r == n % 100
    IN  IF r < 50 THEN {q} ELSE IF r > 50 THEN {q + 1} ELSE {q, q + 1}

CompositeScores(s_score, w_score, wt_score) ==
    LET n == 35 * s_score + 35 * w_score + 30 * wt_score
        q == n \div 100
        r == n % 100
    IN  IF r < 50 THEN {q} ELSE IF r > 50 THEN {q + 1} ELSE {q, q + 1}

RatingAbove(overall_score) ==
    IF overall_score > 750 THEN "PREMIUM SITE"
    ELSE IF overall_score > 600 THEN "OPTIMAL"
    ELSE IF overall_score > 450 THEN "VIABLE"
    ELSE "CHALLENGING"

Rating(overall_score) ==
    IF overall_score >= 750 THEN "PREMIUM SITE"
    ELSE IF overall_score >= 600 THEN "OPTIMAL"
    ELSE IF overall_score >= 450 THEN "VIABLE"
    ELSE "CHALLENGING"

(* _generate_site_insights: the list of insights, each named by its tag. *)
GenerateSiteInsights(wind, solar, water) ==
    LET w_score == DictGet(wind, "score", 0)
        s_score == DictGet(solar, "score", 0)
        wt_score == DictGet(water, "composite_risk_score", 0)
        slope == DictGet(DictGet(wind, "terrain", EmptyDict), "slope", 0)
        archetype == IF w_score > 600 /\ s_score > 600 THEN <<"Prime Hybrid Site">>
                     ELSE IF w_score > 700 THEN <<"Wind-Dominant">>
                     ELSE IF s_score > 700 THEN <<"Solar-Dominant">>
                     ELSE << >>
        hydro == IF wt_score < 300 THEN <<"Critical Resource Sync">>
                 ELSE IF wt_score > 700 THEN <<"Hydrological Buffer">>
                 ELSE << >>
        terrain == IF slope > 15 THEN <<"Logistical Note">> ELSE << >>
    IN  archetype \o hydro \o terrain

(* `x_future.result() if not x_future.exception() else {}` *)
FutureDataError(out) ==
    IF out.kind = "raise" THEN [kind |-> "dict", keys |-> {"error"}]
    ELSE out.doc

FutureData(out) == IF out.kind = "raise" THEN EmptyDict ELSE out.doc

(* The report AssessmentService.analyze builds from the three sections     *)
(* (location and timestamp are left out: they do not depend on them).      *)
Report(wind, solar, water, overall, insights, source) ==
    [kind |-> "report", wind |-> wind, solar |-> solar, water |-> water,
     overall_score |-> overall, rating |-> Rating(overall),
     insights |-> insights,
     components |-> [solar |-> DictGet(solar, "score", 0),
                     wind |-> DictGet(wind, "score", 0),
                     water |-> DictGet(water, "composite_risk_score", 0)],
     source |-> source]

(* The reports analyze can return, given how the three futures ended. *)
AnalyzeReports(wind_out, solar_out, water_out) ==
    LET wind_data == FutureData(wind_out)
        solar_data == FutureData(solar_out)
        water_data == FutureData(water_out)
    IN  { Report(wind_data, solar_data, water_data, overall,
                 GenerateSiteInsights(wind_data, solar_data, water_data), "ee")
          : overall \in CompositeScores(DictGet(solar_data, "score", 0),
                                        DictGet(wind_data, "score", 0),
                                        DictGet(water_data, "composite_risk_score", 0)) }

---------------------------------------------------------------------------
(* AssessmentService objects and the calls of their analyzers.             *)

(* A service object: the model keeps its _ee_initialized flag. *)
Service(ee) == [kind |-> "service", ee |-> ee]

(* What a call leaves: `return doc`, or an exception (Raise). *)
Return(doc) == [kind |-> "return", doc |-> doc]

(* A call of analyze_<domain>(lat, lon) on a service: where it stands      *)
(* (pc), the service's flag, its arguments, the result it has computed     *)
(* (res), what getInfo() answered (up), how the call ended (out) and how   *)
(* many upstream queries it has issued (nq).                               *)
ThreadIdle ==
    [pc |-> "idle", ee |-> FALSE, lat |-> None, lon |-> None,
     up |-> None, res |-> None, out |-> None, nq |-> 0]

ThreadStart(ee, la, lo) ==
    [pc |-> "get", ee |-> ee, lat |-> la, lon |-> lo,
     up |-> None, res |-> None, out |-> None, nq |-> 0]

ThreadDone(t, out) == [t EXCEPT !.pc = "done", !.out = out]

Step(d, op, what) == [d |-> d, op |-> op, fault |-> what]

(* analyze_<domain>, first part: cache.get, `if cached: return cached`,    *)
(* then _require_ee.                                                        *)
AnalyzerGet(d) ==
    /\ th[d].pc = "get"
    /\ \E f \in GetFaults :
          LET cached == DiskCacheGet(table, d, th[d].lat, th[d].lon, f)
          IN  /\ last' = Step(d, "get", f)
              /\ th' = [th EXCEPT ![d] =
                          IF cached.kind = "raise" THEN ThreadDone(@, cached)
                          ELSE IF Truthy(cached) THEN ThreadDone(@, Return(cached))
                          ELSE IF ~ @.ee THEN ThreadDone(@, Raise("RuntimeError"))
                          ELSE [@ EXCEPT !.pc = "query"]]
    /\ UNCHANGED <<table, ops, svc, gee, req, prev, resp, lru>>
    /\ UNCHANGED cacheVars
    /\ UNCHANGED sideVars

(* analyze_<domain>, the try block up to the result: the one combined      *)
(* reduceRegion(...).getInfo(); an exception is logged and re-raised.       *)
AnalyzerQuery(d) ==
    /\ th[d].pc = "query"
    /\ \E u \in EeOutcomes(d) :
          /\ last' = Step(d, "query", u.kind)
          /\ th' = [th EXCEPT ![d] =
                      IF u.kind = "error"
                      THEN [ThreadDone(@, Raise("upstream")) EXCEPT
                               !.up = u, !.nq = @ + 1]
                      ELSE [@ EXCEPT !.pc = "set", !.up = u, !.nq = @ + 1,
                                     !.res = AnalyzerResult(d, u.v)]]
    /\ UNCHANGED <<table, ops, svc, gee, req, prev, resp, lru>>
    /\ UNCHANGED cacheVars
    /\ UNCHANGED sideVars

(* analyze_<domain>, the end: cache.set(...) and `return result`. *)
AnalyzerSet(d) ==
    /\ th[d].pc = "set"
    /\ \E f \in SetFaults :
          /\ last' = Step(d, "set", f)
          /\ table' = DiskCacheSet(table, d, th[d].lat, th[d].lon, th[d].res, f)
    /\ th' = [th EXCEPT ![d] = ThreadDone(@, Return(@.res))]
    /\ UNCHANGED <<ops, svc, gee, req, prev, resp, lru>>
    /\ UNCHANGED cacheVars
    /\ UNCHANGED sideVars

---------------------------------------------------------------------------
(* SpecAnalyzer: one caller invoking the analyzers of a service object     *)
(* one call after another.                                                  *)
MaxCalls == 3

ReqLats == { Coord(4, "toward"), Coord(14, "toward") }
ReqLons == { Coord(7700004, "toward") }

ReqIdle == [pc |-> "idle", lat |-> None, lon |-> None, report |-> None,
            upcalls |-> 0, upok |-> FALSE]

InitAnalyzer ==
    /\ table = {}
    /\ now = 0
    /\ lock = "free"
    /\ cpc = [c \in CacheClients |-> "idle"]
    /\ pend = [c \in CacheClients |-> None]
    /\ ret = None
    /\ committed = [k \in CacheKeys |-> None]
    /\ ops = 0
    /\ svc \in {Service(TRUE), Service(FALSE)}
    /\ gee = {}
    /\ req = ReqIdle
    /\ th = [d \in Services |-> ThreadIdle]
    /\ last = None
    /\ prev = [d \in Services |-> None]
    /\ resp = None
    /\ lru = [d \in Services |-> {}]
    /\ calc = None
    /\ txn = [c \in CredClients |-> TxnIdle]
    /\ eelib = [initialized |-> FALSE, attempts |-> 0, redundant |-> 0]

AnalyzerCall(d) ==
    /\ \A e \in Services : th[e].pc = "idle"
    /\ ops < MaxCalls
    /\ ops' = ops + 1
    /\ \E la \in ReqLats, lo \in ReqLons :
          th' = [th EXCEPT ![d] = ThreadStart(svc.ee, la, lo)]
    /\ UNCHANGED <<table, svc, gee, req, last, prev, resp, lru>>
    /\ UNCHANGED cacheVars
    /\ UNCHANGED sideVars

(* The call is over; the history keeps how it ended and whether the cache  *)
(* then holds its result under its key.                                     *)
AnalyzerReturn(d) ==
    /\ th[d].pc = "done"
    /\ prev' = [prev EXCEPT ![d] =
                  [lat |-> th[d].lat, lon |-> th[d].lon, out |-> th[d].out,
                   up |-> th[d].up,
                   stored |-> /\ th[d].out.kind = "return"
                              /\ SqlSelectValue(table, GetKey(d, th[d].lat, th[d].lon))
                                    = JsonDumps(th[d].out.doc)]]
    /\ th' = [th EXCEPT ![d] = ThreadIdle]
    /\ UNCHANGED <<table, ops, svc, gee, req, last, resp, lru>>
    /\ UNCHANGED cacheVars
    /\ UNCHANGED sideVars

NextAnalyzer ==
    \/ \E d \in Services : AnalyzerCall(d)
    \/ \E d \in Services : AnalyzerGet(d)
    \/ \E d \in Services : AnalyzerQuery(d)
    \/ \E d \in Services : AnalyzerSet(d)
    \/ \E d \in Services : AnalyzerReturn(d)

SpecAnalyzer == InitAnalyzer /\ [][NextAnalyzer]_vars

---------------------------------------------------------------------------
(* The routes module: credentials, the service singleton, /analyze.        *)

(* Rows of gee_json_credentials: the model keeps id and is_active. *)
CredIds == {"c1"}

GeeRow(id, active) == [id |-> id, active |-> active]

(* A credentials dict (a non-empty dict; `src` names the table it is from). *)
Creds(src) ==
    [kind |-> "dict", keys |-> {"client_email", "private_key"}, src |-> src]

(* _fetch_db_credentials.  jsonq and legacyq say what the two SELECTs      *)
(* meet: the first "ok", "error" (the try block raises after the statement *)
(* ran: the row's credential_json is not a mapping) or "aborted" (the      *)
(* database refuses the statement, e.g. the table does not exist, or the   *)
(* connection is lost); the second finds no active row ("none"), a usable  *)
(* one ("found"), or fails ("error").  More than one active row makes      *)
(* scalar_one_or_none raise, which the first try block swallows.  Both     *)
(* SELECTs run on the request's one session: after a refused statement     *)
(* PostgreSQL fails every further statement of the transaction, so the     *)
(* second SELECT raises too, whatever the legacy table holds.               *)
JsonLookups == {"ok", "error", "aborted"}
LegacyLookups == {"none", "found", "error"}

FetchDbCredentials(rows, jsonq, legacyq) ==
    IF jsonq = "ok" /\ Cardinality({row \in rows : row.active}) = 1
    THEN Creds("gee_json_credentials")
    ELSE IF jsonq = "aborted" THEN None
    ELSE IF legacyq = "found" THEN Creds("google_service_credentials")
    ELSE None

(* What constructing an AssessmentService meets: the import of the service *)
(* module fails (earthengine-api missing), DiskCache._init_db raises, the  *)
(* key file is missing, ee.Initialize raises, or all goes well.            *)
Builds == {"import_error", "cache_error", "no_key_file", "ee_error", "ok"}

NewServiceMarked(build) ==
    IF build = "cache_error" THEN Raise("sqlite3.OperationalError")
    ELSE Service(build \in {"ok", "ee_error"})

(* AssessmentService.__init__(data_dir, ee_key_path) *)
NewService(build) ==
    IF build = "cache_error" THEN Raise("sqlite3.OperationalError")
    ELSE Service(build = "ok")

GetAssessmentServiceAnew(g, credentials_dict, build) ==
    IF build = "import_error"
    THEN [global |-> g, result |-> Raise("ImportError"), built |-> FALSE]
    ELSE IF credentials_dict # None
    THEN [global |-> g, result |-> Raise("TypeError"), built |-> FALSE]
    ELSE IF NewService(build).kind = "raise"
    THEN [global |-> g, result |-> NewService(build), built |-> TRUE]
    ELSE [global |-> NewService(build), result |-> NewService(build), built |-> TRUE]

(* _get_assessment_service: the new value of the global, what the call     *)
(* returns or raises, and whether it ran AssessmentService.__init__.  With *)
(* a credentials dict it passes the keyword credentials_dict, which        *)
(* __init__ does not take: a TypeError.                                     *)
GetAssessmentService(g, credentials_dict, build) ==
    IF g # None /\ g.ee THEN [global |-> g, result |-> g, built |-> FALSE]
    ELSE IF build = "import_error"
    THEN [global |-> g, result |-> Raise("ImportError"), built |-> FALSE]
    ELSE IF credentials_dict # None
    THEN [global |-> g, result |-> Raise("TypeError"), built |-> FALSE]
    ELSE IF NewService(build).kind = "raise"
    THEN [global |-> g, result |-> NewService(build), built |-> TRUE]
    ELSE [global |-> NewService(build), result |-> NewService(build), built |-> TRUE]

(* Open-Meteo and PVGIS.  A call fails ("error": the helper returns None), *)
(* cannot build its client ("crash": _get_openmeteo raises something other *)
(* than HTTPException), or answers with values.                            *)
(* Units: wind speed m/s, air density g/m3, ghi kWh/m2/year, et0 and       *)
(* precipitation mm/day.                                                    *)
LiveOutcomes == { UpError, UpCrash,
                  UpValues([ws80 |-> Num(10), ws120 |-> Num(12), ad |-> Num(1225)]),
                  UpValues([ws80 |-> Num(0), ws120 |-> Num(0), ad |-> Num(0)]) }

PvgisOutcomes == { UpError, UpValues([ghi_y |-> Num(1900)]) }

HydroOutcomes == { UpError, UpValues([et0 |-> Num(4), precip |-> Num(10)]) }

(* _get_live_forecast *)
GetLiveForecast(u) ==
    IF u.kind = "error" THEN None
    ELSE IF u.kind = "crash" THEN Raise("client")
    ELSE [kind |-> "dict",
          keys |-> {"wind_speed_80m", "wind_speed_120m", "air_density_120m"},
          wind_speed_80m |-> u.v.ws80, wind_speed_120m |-> u.v.ws120,
          air_density_120m |-> u.v.ad]

(* _compute_wind_from_live_data: ws100 is the mean of the 80 m and 120 m   *)
(* speeds, pd = 0.5 * ad * ws100^3; an air density of 0 reads as 1.225.    *)
(* The bands have whole thresholds, so the whole part of pd decides.       *)
LiveWindPd(live) ==
    LET twice == live.wind_speed_80m.x + live.wind_speed_120m.x
        ad == IF live.air_density_120m.x = 0 THEN 1225 ELSE live.air_density_120m.x
    IN  (ad * twice * twice * twice) \div 16000

ComputeWindFromLiveData(live) ==
    [kind |-> "dict",
     keys |-> WindKeys \cup {"profile", "physics", "yield_est"},
     score |-> 10 * WindScore(LiveWindPd(live)),
     grade |-> WindGrade(LiveWindPd(live)),
     terrain |-> [kind |-> "dict", keys |-> {"slope", "elevation"}, slope |-> 0]]

(* _fetch_pvgis_solar *)
FetchPvgisSolar(u) ==
    IF u.kind # "values" THEN None
    ELSE [kind |-> "dict", keys |-> {"score", "resource", "monthly", "metadata"},
          score |-> 10 * SolarScore(OrZero(u.v.ghi_y)),
          grade |-> SolarGrade(OrZero(u.v.ghi_y))]

(* _fetch_open_meteo_hydrology: composite = 0.4 et_norm + 0.6 precip_norm, *)
(* in tenths; whole et0 and precipitation make it exact.                   *)
HydroComposite(et0, precip) ==
    4 * Clamp((10 - et0) * 10, 0, 100) + 6 * Clamp(precip * 5, 0, 100)

FetchOpenMeteoHydrologyNoPdsi(u) ==
    IF u.kind # "values" THEN None
    ELSE LET composite == HydroComposite(OrZero(u.v.et0), OrZero(u.v.precip))
         IN  [kind |-> "dict",
              keys |-> {"composite_risk_score", "soil_moisture", "terraclimate",
                        "modis_et", "precipitation", "metadata"},
              composite_risk_score |-> composite,
              interpretation |-> WaterInterpretation(composite)]

FetchOpenMeteoHydrology(u) ==
    IF u.kind # "values" THEN None
    ELSE LET composite == HydroComposite(OrZero(u.v.et0), OrZero(u.v.precip))
         IN  [kind |-> "dict",
              keys |-> {"composite_risk_score", "grace_anomaly", "pdsi",
                        "interpretation", "soil_moisture", "terraclimate",
                        "modis_et", "precipitation", "metadata"},
              composite_risk_score |-> composite,
              interpretation |-> WaterInterpretation(composite)]

(* `x if isinstance(x, dict) else None` *)
DictOrNone(x) == IF x.kind = "dict" THEN x ELSE None

(* The reports _analyze_fallback can return for what its three helpers     *)
(* gave (a helper that raised counts as None).                              *)
FallbackReports(live, solar_data, hydro_data) ==
    LET wind_data == IF Truthy(DictOrNone(live))
                     THEN ComputeWindFromLiveData(live) ELSE EmptyDict
        solar_res == IF Truthy(DictOrNone(solar_data)) THEN solar_data ELSE EmptyDict
        water_res == IF Truthy(DictOrNone(hydro_data)) THEN hydro_data ELSE EmptyDict
    IN  { Report(wind_data, solar_res, water_res, overall,
                 <<"Open-Meteo & PVGIS", "Configure Google Earth Engine">>,
                 "open-meteo+pvgis-fallback")
          : overall \in CompositeScores(DictGet(solar_res, "score", 0),
                                        DictGet(wind_data, "score", 0),
                                        DictGet(water_res, "composite_risk_score", 0)) }

(* An exception that reaches the HTTP boundary: the framework answers 500. *)
HttpError(what) == [kind |-> "http_error", status |-> 500, what |-> what]

---------------------------------------------------------------------------
(* Spec: the app.  /analyze requests one after another, the three          *)
(* analyzers of a request running as pool threads, and the credential      *)
(* endpoints, which may run at any time.                                    *)
MaxRequests == 2

ApiLats == { Coord(4, "toward") }
ApiLons == { Coord(7700004, "toward") }

Init ==
    /\ table = {}
    /\ now = 0
    /\ lock = "free"
    /\ cpc = [c \in CacheClients |-> "idle"]
    /\ pend = [c \in CacheClients |-> None]
    /\ ret = None
    /\ committed = [k \in CacheKeys |-> None]
    /\ ops = 0
    /\ svc = None
    /\ gee = {}
    /\ req = ReqIdle
    /\ th = [d \in Services |-> ThreadIdle]
    /\ last = None
    /\ prev = [d \in Services |-> None]
    /\ resp = None
    /\ lru = [d \in Services |-> {}]
    /\ calc = None
    /\ txn = [c \in CredClients |-> TxnIdle]
    /\ eelib = [initialized |-> FALSE, attempts |-> 0, redundant |-> 0]

(* create_gee_credential: deactivate the active rows, insert the new row   *)
(* (is_active defaults to true), commit, reset the singleton.               *)
CreateGeeCredential(id) ==
    /\ \A row \in gee : row.id # id
    /\ gee' = {GeeRow(row.id, FALSE) : row \in gee} \cup {GeeRow(id, TRUE)}
    /\ svc' = None
    /\ UNCHANGED <<table, ops, req, th, last, prev, resp, lru>>
    /\ UNCHANGED cacheVars
    /\ UNCHANGED sideVars

(* delete_gee_credential for a row that exists (for one that does not it   *)
(* answers 404 and changes nothing).                                        *)
DeleteGeeCredential(id) ==
    /\ \E row \in gee : row.id = id
    /\ gee' = {row \in gee : row.id # id}
    /\ svc' = None
    /\ UNCHANGED <<table, ops, req, th, last, prev, resp, lru>>
    /\ UNCHANGED cacheVars
    /\ UNCHANGED sideVars

(* api_analyze up to the choice of path: _fetch_db_credentials,            *)
(* _get_assessment_service (only ImportError is caught), and either the    *)
(* fallback or service.analyze, which submits the three analyzers.         *)
ApiAnalyze(la, lo) ==
    /\ req.pc \in {"idle", "done"}
    /\ ops < MaxRequests
    /\ ops' = ops + 1
    /\ \E jsonq \in JsonLookups, legacyq \in LegacyLookups, build \in Builds :
          LET credentials_dict == FetchDbCredentials(gee, jsonq, legacyq)
              got == GetAssessmentService(svc, credentials_dict, build)
              service == got.result
              start == [ReqIdle EXCEPT !.lat = la, !.lon = lo]
          IN  /\ svc' = got.global
              /\ IF service.kind = "raise" /\ service.what # "ImportError"
                 THEN /\ resp' = HttpError(service.what)
                      /\ req' = [start EXCEPT !.pc = "done"]
                      /\ th' = th
                 ELSE IF service.kind = "raise" \/ ~ service.ee
                 THEN /\ resp' = None
                      /\ req' = [start EXCEPT !.pc = "fallback"]
                      /\ th' = th
                 ELSE /\ resp' = None
                      /\ req' = [start EXCEPT !.pc = "primary"]
                      /\ th' = [d \in Services |-> ThreadStart(service.ee, la, lo)]
    /\ UNCHANGED <<table, gee, last, prev, lru>>
    /\ UNCHANGED cacheVars
    /\ UNCHANGED sideVars

AnalyzeReturnEarly ==
    /\ req.pc = "primary"
    /\ th["wind"].pc = "done"
    /\ LET outcome(d) == IF th[d].pc = "done" THEN th[d].out ELSE Return(EmptyDict)
       IN  \E report \in AnalyzeReports(outcome("wind"), outcome("solar"),
                                         outcome("water")) :
              req' = [req EXCEPT !.pc = "joined", !.report = report,
                                 !.upcalls = th["wind"].nq + th["solar"].nq + th["water"].nq,
                                 !.upok = \E d \in Services :
                                             th[d].up # None /\ th[d].up.kind = "values"]
    /\ UNCHANGED <<table, ops, svc, gee, th, last, prev, resp, lru>>
    /\ UNCHANGED cacheVars
    /\ UNCHANGED sideVars

(* AssessmentService.analyze once the three futures are done: the report.  *)
AnalyzeReturn ==
    /\ req.pc = "primary"
    /\ \A d \in Services : th[d].pc = "done"
    /\ \E report \in AnalyzeReports(th["wind"].out, th["solar"].out, th["water"].out) :
          req' = [req EXCEPT !.pc = "joined", !.report = report,
                             !.upcalls = th["wind"].nq + th["solar"].nq + th["water"].nq,
                             !.upok = \E d \in Services :
                                         th[d].up # None /\ th[d].up.kind = "values"]
    /\ UNCHANGED <<table, ops, svc, gee, th, last, prev, resp, lru>>
    /\ UNCHANGED cacheVars
    /\ UNCHANGED sideVars

(* api_analyze after service.analyze: an empty or score-less wind section  *)
(* is replaced by one computed from the live forecast, if there is one; an  *)
(* exception sends the request to the fallback.                             *)
ApiSupplement ==
    /\ req.pc = "joined"
    /\ LET result == req.report
           lacking == ~ Truthy(result.wind) \/ DictGet(result.wind, "score", 0) = 0
       IN  IF ~ lacking
           THEN /\ resp' = result
                /\ req' = [req EXCEPT !.pc = "done", !.report = None]
           ELSE \E u \in LiveOutcomes :
                   LET live == GetLiveForecast(u)
                   IN  IF live.kind = "raise"
                       THEN /\ resp' = resp
                            /\ req' = [req EXCEPT !.pc = "fallback", !.report = None,
                                                  !.upcalls = @ + 1]
                       ELSE /\ resp' = IF Truthy(live)
                                       THEN [result EXCEPT
                                               !.wind = ComputeWindFromLiveData(live)]
                                       ELSE result
                            /\ req' = [req EXCEPT !.pc = "done", !.report = None,
                                                  !.upcalls = @ + 1,
                                                  !.upok = @ \/ u.kind = "values"]
    /\ th' = [d \in Services |-> ThreadIdle]
    /\ UNCHANGED <<table, ops, svc, gee, last, prev, lru>>
    /\ UNCHANGED cacheVars
    /\ UNCHANGED sideVars

AnalyzeFallbackCaching ==
    /\ req.pc = "fallback"
    /\ \E ul \in LiveOutcomes, us \in PvgisOutcomes, uh \in HydroOutcomes :
          /\ resp' \in FallbackReports(GetLiveForecast(ul), FetchPvgisSolar(us),
                                       FetchOpenMeteoHydrology(uh))
          /\ req' = [req EXCEPT !.pc = "done", !.upcalls = @ + 3,
                                !.upok = @ \/ "values" \in {ul.kind, us.kind, uh.kind}]
    /\ table' = DiskCacheSet(table, "wind", req.lat, req.lon, resp'.wind, "ok")
    /\ UNCHANGED <<ops, svc, gee, th, last, prev, lru>>
    /\ UNCHANGED cacheVars
    /\ UNCHANGED sideVars

(* _analyze_fallback: the three helpers, gathered, and the report. *)
AnalyzeFallback ==
    /\ req.pc = "fallback"
    /\ \E ul \in LiveOutcomes, us \in PvgisOutcomes, uh \in HydroOutcomes :
          /\ resp' \in FallbackReports(GetLiveForecast(ul), FetchPvgisSolar(us),
                                       FetchOpenMeteoHydrology(uh))
          /\ req' = [req EXCEPT !.pc = "done", !.upcalls = @ + 3,
                                !.upok = @ \/ "values" \in {ul.kind, us.kind, uh.kind}]
    /\ UNCHANGED <<table, ops, svc, gee, th, last, prev, lru>>
    /\ UNCHANGED cacheVars
    /\ UNCHANGED sideVars

Next ==
    \/ \E la \in ApiLats, lo \in ApiLons : ApiAnalyze(la, lo)
    \/ \E d \in Services : AnalyzerGet(d)
    \/ \E d \in Services : AnalyzerQuery(d)
    \/ \E d \in Services : AnalyzerSet(d)
    \/ AnalyzeReturn
    \/ ApiSupplement
    \/ AnalyzeFallback
    \/ \E id \in CredIds : CreateGeeCredential(id)
    \/ \E id \in CredIds : DeleteGeeCredential(id)

Spec == Init /\ [][Next]_vars

---------------------------------------------------------------------------
(* The stand-alone service (backend/assessment_service.py) and its         *)
(* /analyze endpoint (backend/main.py).                                     *)

(* _norm(v, lo, hi), in thousandths of a percent (v, lo, hi in one unit). *)
Norm(v, lo, hi) ==
    IF hi = lo THEN 0 ELSE Clamp(((v - lo) * 100000) \div (hi - lo), 0, 100000)

(* round(sum, 1) of a weighted sum of norms, in tenths of a point: the     *)
(* weights are percents, so the sum is in units of 1e-5 point.  The        *)
(* samples' sums are further than the fixed-point error from a tie.        *)
RoundTenths(weighted) == (weighted + 5000) \div 10000

(* _compute_wind_score(pd100, rix, ws100, cf_best)                          *)
(* Units: pd W/m2, rix and cf 1/100, ws 1/10 m/s.                           *)
ComputeWindScore(pd100, rix, ws100, cf_best) ==
    RoundTenths(40 * Norm(pd100, 0, 600) + 30 * Norm(ws100, 35, 120)
                + 20 * Norm(cf_best, 0, 50)
                + 10 * Norm(50 - Clamp(rix, 0, 50), 0, 50))

(* _compute_solar_score(core, cloud_pct, aod, slope)                        *)
(* Units: ghi and pvout 1/10 kWh, cloud percent, aod 1/100, slope degree.   *)
ComputeSolarScore(ghi, pvout, cloud_pct, aod, slope) ==
    RoundTenths(30 * Norm(ghi, 30, 70) + 30 * Norm(pvout, 25, 55)
                + 20 * Norm(100 - cloud_pct, 30, 100)
                + 10 * Norm(80 - aod, 0, 80)
                + 10 * Norm(30 - slope, 0, 30))

(* _compute_water_score(precip_daily, lwe, deficit, soil, occurrence)       *)
(* Units: precipitation 1/10 mm/day, lwe cm, deficit mm, soil kg/m2,        *)
(* occurrence percent.                                                      *)
ComputeWaterScore(precip_daily, lwe, deficit, soil, occurrence) ==
    RoundTenths(25 * Norm(precip_daily, 5, 50) + 25 * Norm(lwe, -25, 10)
                + 20 * Norm(200 - Clamp(deficit, 0, 200), 0, 180)
                + 15 * Norm(soil, 10, 250)
                + 15 * Norm(occurrence, 0, 40))

(* What Earth Engine gives the stand-alone analyzers.  _wind_cached makes  *)
(* one combined query; _solar_cached and _water_cached make one query per  *)
(* source, each in its own try block: a source is None when its query      *)
(* raised.                                                                  *)
LegacyWind == { UpError,
                UpValues([ws_100 |-> None, pd_100 |-> None, rix |-> None,
                          cf_best |-> None, slope |-> None]),
                UpValues([ws_100 |-> Num(120), pd_100 |-> Num(300), rix |-> Num(25),
                          cf_best |-> Num(25), slope |-> Num(20)]) }

LegacySolar == { UpValues([ghi |-> None, pvout |-> None, slope |-> None,
                           cloud_pct |-> None, aod |-> None]),
                 UpValues([ghi |-> None, pvout |-> None, slope |-> Num(15),
                           cloud_pct |-> Num(35), aod |-> Num(40)]),
                 UpValues([ghi |-> Num(50), pvout |-> Num(40), slope |-> Num(15),
                           cloud_pct |-> Num(35), aod |-> Num(40)]) }

LegacyWater == { UpValues([precip |-> None, lwe |-> None, deficit |-> None,
                           soil |-> None, occurrence |-> None]),
                 UpValues([precip |-> None, lwe |-> Num(-4), deficit |-> Num(20),
                           soil |-> Num(130), occurrence |-> Num(20)]),
                 UpValues([precip |-> Num(50), lwe |-> Num(-4), deficit |-> Num(20),
                           soil |-> Num(130), occurrence |-> Num(20)]) }

LegacyOutcomes(d) ==
    CASE d = "wind" -> LegacyWind
      [] d = "solar" -> LegacySolar
      [] d = "water" -> LegacyWater

(* Some query of the analyzer's run was answered. *)
LegacyAnswered(u) ==
    /\ u.kind = "values"
    /\ \E f \in DOMAIN u.v : u.v[f] # None

(* _wind_cached: None when the query raises or has no ws_100. *)
WindCached(u) ==
    IF u.kind = "error" THEN None
    ELSE IF u.v.ws_100 = None THEN None
    ELSE [kind |-> "dict",
          keys |-> {"resource", "profile", "capacity_factors", "physics",
                    "terrain", "yield_est", "score", "rating"},
          score |-> ComputeWindScore(OrZero(u.v.pd_100), OrZero(u.v.rix),
                                     OrZero(u.v.ws_100), OrZero(u.v.cf_best)),
          grade |-> WindGrade(OrZero(u.v.pd_100)),
          terrain |-> [kind |-> "dict", keys |-> {"rix", "elevation", "slope"},
                       slope |-> OrZero(u.v.slope)]]

(* _solar_cached: always a dict; a failed source leaves its zero defaults. *)
SolarCached(u) ==
    [kind |-> "dict",
     keys |-> {"core", "monthly", "terrain", "atmospheric", "validation",
               "score", "rating"},
     score |-> ComputeSolarScore(OrZero(u.v.ghi), OrZero(u.v.pvout),
                                 OrZero(u.v.cloud_pct), OrZero(u.v.aod),
                                 OrZero(u.v.slope))]

(* _water_cached: always a dict; a failed source leaves its zero defaults. *)
WaterCached(u) ==
    [kind |-> "dict",
     keys |-> {"precipitation", "surface_water", "soil_moisture", "terraclimate",
               "modis_et", "groundwater_grace", "ndwi_landsat9",
               "infrastructure", "admin", "composite_risk_score", "water_rating"},
     composite_risk_score |->
         ComputeWaterScore(OrZero(u.v.precip), OrZero(u.v.lwe), OrZero(u.v.deficit),
                           OrZero(u.v.soil), OrZero(u.v.occurrence)),
     infrastructure |-> None]

LegacyCachedResult(d, u) ==
    CASE d = "wind" -> WindCached(u)
      [] d = "solar" -> SolarCached(u)
      [] d = "water" -> WaterCached(u)

(* The key lru_cache files a call of _<domain>_cached under: the rounded   *)
(* coordinates as floats, for which -0.0 equals 0.0.                        *)
LruKey(lat, lon) ==
    LET value(r) == IF r.neg THEN 0 - r.mag ELSE r.mag
    IN  <<value(Round4(lat)), value(Round4(lon))>>

LruEntries(memo, key) == {e \in memo : e.key = key}

(* main.py generate_site_insights: wind.get on None raises AttributeError. *)
LegacyGenerateSiteInsights(wind, solar, water) ==
    IF wind = None \/ solar = None \/ water = None THEN Raise("AttributeError")
    ELSE GenerateSiteInsights(wind, solar, water)

(* `x.get('score', 0) if x else 0` *)
LegacyScore(data, key) == IF Truthy(data) THEN DictGet(data, key, 0) ELSE 0

(* main.py api_analyze after the gather: the responses it can send. *)
LegacyResponses(wind_data, solar_data, water_data) ==
    LET s_score == LegacyScore(solar_data, "score")
        w_score == LegacyScore(wind_data, "score")
        wt_score == LegacyScore(water_data, "composite_risk_score")
        site_insights == LegacyGenerateSiteInsights(wind_data, solar_data, water_data)
    IN  IF wind_data = None \/ solar_data = None \/ water_data = None
        THEN {HttpError(site_insights.what)}
        ELSE { Report(wind_data, solar_data, water_data, overall, site_insights,
                      "main.py")
               : overall \in CompositeScores(s_score, w_score, wt_score) }

---------------------------------------------------------------------------
(* SpecLegacy: /analyze requests of the stand-alone app, one after         *)
(* another, each running its three analyzers as threads.                    *)
InitLegacy ==
    /\ table = {}
    /\ now = 0
    /\ lock = "free"
    /\ cpc = [c \in CacheClients |-> "idle"]
    /\ pend = [c \in CacheClients |-> None]
    /\ ret = None
    /\ committed = [k \in CacheKeys |-> None]
    /\ ops = 0
    /\ svc = None
    /\ gee = {}
    /\ req = ReqIdle
    /\ th = [d \in Services |-> ThreadIdle]
    /\ last = None
    /\ prev = [d \in Services |-> None]
    /\ resp = None
    /\ lru = [d \in Services |-> {}]
    /\ calc = None
    /\ txn = [c \in CredClients |-> TxnIdle]
    /\ eelib = [initialized |-> FALSE, attempts |-> 0, redundant |-> 0]

(* main.py api_analyze: the three analyzers are handed to threads. *)
LegacyApiAnalyze(la, lo) ==
    /\ req.pc \in {"idle", "done"}
    /\ ops < MaxRequests
    /\ ops' = ops + 1
    /\ req' = [ReqIdle EXCEPT !.pc = "gather", !.lat = la, !.lon = lo]
    /\ th' = [d \in Services |-> ThreadStart(FALSE, la, lo)]
    /\ resp' = None
    /\ UNCHANGED <<table, svc, gee, last, prev, lru>>
    /\ UNCHANGED cacheVars
    /\ UNCHANGED sideVars

(* analyze_<domain>: cache.get and `if cached: return cached`. *)
LegacyAnalyzerGet(d) ==
    /\ req.pc = "gather"
    /\ th[d].pc = "get"
    /\ \E f \in GetFaults :
          LET cached == DiskCacheGet(table, d, th[d].lat, th[d].lon, f)
          IN  /\ last' = Step(d, "get", f)
              /\ th' = [th EXCEPT ![d] =
                          IF cached.kind = "raise" THEN ThreadDone(@, Return(None))
                          ELSE IF Truthy(cached) THEN ThreadDone(@, Return(cached))
                          ELSE [@ EXCEPT !.pc = "cached"]]
    /\ UNCHANGED <<table, ops, svc, gee, req, prev, resp, lru>>
    /\ UNCHANGED cacheVars
    /\ UNCHANGED sideVars

(* analyze_<domain>: res = self._<domain>_cached(round(lat, 4),            *)
(* round(lon, 4)) under lru_cache: a memoized value is returned without    *)
(* running the body; otherwise the body runs and its value is memoized.    *)
(* A falsy result is returned without being written to the disk cache.     *)
LegacyAnalyzerCached(d) ==
    /\ req.pc = "gather"
    /\ th[d].pc = "cached"
    /\ LET key == LruKey(th[d].lat, th[d].lon)
           hit == LruEntries(lru[d], key)
       IN  IF hit # {}
           THEN /\ th' = [th EXCEPT ![d] =
                            LET res == (CHOOSE e \in hit : TRUE).val
                            IN  IF Truthy(res) THEN [@ EXCEPT !.pc = "set", !.res = res]
                                ELSE ThreadDone(@, Return(None))]
                /\ last' = Step(d, "cached", "memo")
                /\ lru' = lru
           ELSE \E u \in LegacyOutcomes(d) :
                   LET res == LegacyCachedResult(d, u)
                   IN  /\ th' = [th EXCEPT ![d] =
                                   IF Truthy(res)
                                   THEN [@ EXCEPT !.pc = "set", !.res = res,
                                                  !.up = u, !.nq = @ + 1]
                                   ELSE [ThreadDone(@, Return(None)) EXCEPT
                                            !.up = u, !.nq = @ + 1]]
                       /\ last' = Step(d, "cached", u.kind)
                       /\ lru' = [lru EXCEPT ![d] = @ \cup {[key |-> key, val |-> res]}]
    /\ UNCHANGED <<table, ops, svc, gee, req, prev, resp>>
    /\ UNCHANGED cacheVars
    /\ UNCHANGED sideVars

(* analyze_<domain>: cache.set(...) and `return sanitized`. *)
LegacyAnalyzerSet(d) ==
    /\ req.pc = "gather"
    /\ th[d].pc = "set"
    /\ \E f \in SetFaults :
          /\ last' = Step(d, "set", f)
          /\ table' = DiskCacheSet(table, d, th[d].lat, th[d].lon, th[d].res, f)
    /\ th' = [th EXCEPT ![d] = ThreadDone(@, Return(@.res))]
    /\ UNCHANGED <<ops, svc, gee, req, prev, resp, lru>>
    /\ UNCHANGED cacheVars
    /\ UNCHANGED sideVars

(* main.py api_analyze once the gather is over: the JSON report, or        *)
(* HTTPException(500) when anything in the try block raised.                *)
LegacyApiReturn ==
    /\ req.pc = "gather"
    /\ \A d \in Services : th[d].pc = "done"
    /\ resp' \in LegacyResponses(th["wind"].out.doc, th["solar"].out.doc,
                                 th["water"].out.doc)
    /\ req' = [req EXCEPT !.pc = "done",
                          !.upcalls = th["wind"].nq + th["solar"].nq + th["water"].nq,
                          !.upok = \E d \in Services :
                                      th[d].up # None /\ LegacyAnswered(th[d].up)]
    /\ th' = [d \in Services |-> ThreadIdle]
    /\ UNCHANGED <<table, ops, svc, gee, last, prev, lru>>
    /\ UNCHANGED cacheVars
    /\ UNCHANGED sideVars

NextLegacy ==
    \/ \E la \in ApiLats, lo \in ApiLons : LegacyApiAnalyze(la, lo)
    \/ \E d \in Services : LegacyAnalyzerGet(d)
    \/ \E d \in Services : LegacyAnalyzerCached(d)
    \/ \E d \in Services : LegacyAnalyzerSet(d)
    \/ LegacyApiReturn

SpecLegacy == InitLegacy /\ [][NextLegacy]_vars

---------------------------------------------------------------------------
(* SpecCache: threads calling DiskCache.get and DiskCache.set directly.    *)
(* get is one SELECT.  set is INSERT OR REPLACE (which takes sqlite's      *)
(* write lock) followed by commit; a second writer waits for the lock or   *)
(* gives up with "database is locked", which set swallows.                 *)

(* History of a key: the document and point of its last committed set,    *)
(* and whether that set replaced another document.                         *)
Commit(old, s, doc, la, lo) ==
    [kind |-> "set", service |-> s, doc |-> doc, lat |-> la, lon |-> lo,
     over |-> old # None /\ old.doc # doc]

InitCache ==
    /\ table = {}
    /\ now = 0
    /\ lock = "free"
    /\ cpc = [c \in CacheClients |-> "idle"]
    /\ pend = [c \in CacheClients |-> None]
    /\ ret = None
    /\ committed = [k \in CacheKeys |-> None]
    /\ ops = 0
    /\ svc = None
    /\ gee = {}
    /\ req = ReqIdle
    /\ th = [d \in Services |-> ThreadIdle]
    /\ last = None
    /\ prev = [d \in Services |-> None]
    /\ resp = None
    /\ lru = [d \in Services |-> {}]
    /\ calc = None
    /\ txn = [c \in CredClients |-> TxnIdle]
    /\ eelib = [initialized |-> FALSE, attempts |-> 0, redundant |-> 0]

CacheGetCall(c) ==
    /\ cpc[c] = "idle"
    /\ ops < MaxOps
    /\ \E s \in CacheServices, la \in CacheLats, lo \in CacheLons, f \in GetFaults :
          ret' = [kind |-> "ret", op |-> "get", lat |-> la,
                  key |-> GetKey(s, la, lo), ok |-> f = "ok",
                  val |-> DiskCacheGet(table, s, la, lo, f)]
    /\ ops' = ops + 1
    /\ UNCHANGED <<table, now, lock, cpc, pend, committed>>
    /\ UNCHANGED appVars
    /\ UNCHANGED sideVars

CacheSetExecute(c) ==
    /\ cpc[c] = "idle"
    /\ ops < MaxOps
    /\ ops' = ops + 1
    /\ \E s \in CacheServices, la \in CacheLats, lo \in CacheLons,
          doc \in CacheDocs, f \in SetFaults :
          IF f = "ok"
          THEN /\ lock = "free"
               /\ lock' = c
               /\ cpc' = [cpc EXCEPT ![c] = "commit"]
               /\ pend' = [pend EXCEPT ![c] =
                             [kind |-> "insert", service |-> s, lat |-> la,
                              lon |-> lo, doc |-> doc]]
               /\ UNCHANGED ret
          ELSE UNCHANGED <<lock, cpc, pend, ret>>
    /\ UNCHANGED <<table, now, committed>>
    /\ UNCHANGED appVars
    /\ UNCHANGED sideVars

CacheSetCommit(c) ==
    /\ cpc[c] = "commit"
    /\ lock = c
    /\ \E f \in SetFaults :
          LET p == pend[c]
              k == GetKey(p.service, p.lat, p.lon)
          IN  /\ table' = DiskCacheSet(table, p.service, p.lat, p.lon, p.doc, f)
              /\ committed' = IF f = "ok"
                               THEN [committed EXCEPT ![k] = Commit(@, p.service, p.doc, p.lat, p.lon)]
                               ELSE committed
    /\ lock' = "free"
    /\ cpc' = [cpc EXCEPT ![c] = "idle"]
    /\ pend' = [pend EXCEPT ![c] = None]
    /\ UNCHANGED <<now, ops, ret>>
    /\ UNCHANGED appVars
    /\ UNCHANGED sideVars

Tick ==
    /\ now < MaxTime
    /\ now' = now + 1
    /\ UNCHANGED <<table, lock, cpc, pend, ret, committed, ops>>
    /\ UNCHANGED appVars
    /\ UNCHANGED sideVars

NextCache ==
    \/ \E c \in CacheClients : CacheGetCall(c)
    \/ \E c \in CacheClients : CacheSetExecute(c)
    \/ \E c \in CacheClients : CacheSetCommit(c)
    \/ Tick

SpecCache == InitCache /\ [][NextCache]_vars

---------------------------------------------------------------------------
(* Claims about DiskCache, checked under SpecCache.                        *)

(* What a get served without storage error returns for a point now. *)
GetNow(p) == DiskCacheGet(table, p[1], p[2], p[3], "ok")
KeyAt(p) == GetKey(p[1], p[2], p[3])

(* Two doubles are within 0.00005 degree of each other. *)
Near(c1, c2) == Abs(c1.u - c2.u) < 5

(* A double lies strictly within 0.00005 degree of the 4-decimal grid      *)
(* value g (in units of 1e-4 degree, signed), on the side of zero that     *)
(* `neg` names.                                                            *)
AtGrid(c, g, neg) == Abs(c.u - 10 * g) < 5 /\ (c.u < 0) = neg

GridValues == -1 .. 3

(* The sample coordinates near a given one, and those in its grid cell.   *)
NearOf(cs) == [a \in cs |-> {b \in cs : Near(a, b)}]

CellOf(cs, grid) ==
    [a \in cs |-> {b \in cs : \E g \in grid, neg \in BOOLEAN :
                                  AtGrid(a, g, neg) /\ AtGrid(b, g, neg)}]

NearLats == NearOf(Lats)
NearLons == NearOf(Lons)
CellLats == CellOf(Lats, GridValues)
CellLons == CellOf(Lons, 770000 .. 770002)

KeysAgree(latMates, lonMates) ==
    \A s \in Services, la \in Lats, lo \in Lons :
        \A la2 \in latMates[la], lo2 \in lonMates[lo] :
            GetKey(s, la, lo) = GetKey(s, la2, lo2)

CellKeysAgree == KeysAgree(CellLats, CellLons)

(* The document set at a point is stored under the key of each of its      *)
(* mates, and is what a get (served without storage error) there returns.  *)
EntryShared(latMates, lonMates) ==
    \A k \in DOMAIN committed :
        committed[k] # None =>
            \A la2 \in latMates[committed[k].lat], lo2 \in lonMates[committed[k].lon] :
                /\ GetKey(committed[k].service, la2, lo2) = k
                /\ DiskCacheGet(table, committed[k].service, la2, lo2, "ok")
                      = committed[k].doc

(* C4 as stated: for every service and any two points less than 0.00005    *)
(* degree apart in latitude and in longitude, _get_key gives one key, and   *)
(* a get for the second point returns the value set for the first.          *)
C4_AnyTwoNearPointsShareKey == EntryShared(NearLats, NearLons)

(* C4 amended: for every service and any two points whose latitudes lie     *)
(* strictly within 0.00005 degree of one 4-decimal grid value and on one    *)
(* side of zero, and whose longitudes do likewise, _get_key gives one key,  *)
(* and a get (served without storage error) for the second point returns    *)
(* the value last set for the first.                                        *)
C4_SameGridCellSharesKey ==
    CellKeysAgree /\ EntryShared(CellLats, CellLons)

(* A get at one point has returned the document set at another point of    *)
(* the same grid cell.                                                      *)
C4_Witness ==
    /\ ret # None
    /\ ret.op = "get"
    /\ ret.ok
    /\ committed[ret.key] # None
    /\ committed[ret.key].lat # ret.lat
    /\ ret.val = committed[ret.key].doc

(* C9: whatever the interleaving of sets on one key, the table holds at     *)
(* most one row for the key; once a set on it has committed it holds        *)
(* exactly one, whose value is the document of the last committed set (a    *)
(* set that reaches commit without a storage error commits whether or not   *)
(* the key exists), and a get served without storage error returns that     *)
(* document.                                                                *)
C9_LastCommittedSetWins ==
    /\ \A k \in DOMAIN committed :
          /\ Cardinality(RowsOf(table, k)) <= 1
          /\ committed[k] = None => RowsOf(table, k) = {}
          /\ committed[k] # None =>
                \E row \in table :
                    row.key = k /\ row.value = JsonDumps(committed[k].doc)
    /\ \A p \in CachePoints :
          committed[KeyAt(p)] # None => GetNow(p) = committed[KeyAt(p)].doc

(* A key has been set twice, the second set (by a client that found the    *)
(* key present) replacing a different document.                             *)
C9_Witness ==
    \E k \in DOMAIN committed :
        /\ committed[k] # None
        /\ committed[k].over
        /\ \E c \in CacheClients :
              /\ cpc[c] = "commit"
              /\ GetKey(pend[c].service, pend[c].lat, pend[c].lon) = k
              /\ pend[c].doc # committed[k].doc

(* C10: entries neither expire nor are removed.  In every state, a get      *)
(* served without storage error for a key that has been set returns the     *)
(* stored document, whatever the clock reads; no step removes a key's row;  *)
(* and a step changes the rows of a key only if it is the commit of a set   *)
(* on that key, so a set leaves every other key's value unchanged.          *)
C10_GetAfterSet ==
    \A p \in CachePoints :
        committed[KeyAt(p)] # None =>
            /\ GetNow(p) # None
            /\ GetNow(p) \in {JsonLoads(row.value) : row \in table}

C10_Frame ==
    \A k \in DOMAIN committed :
        /\ RowsOf(table, k) # {} => RowsOf(table', k) # {}
        /\ RowsOf(table', k) # RowsOf(table, k) =>
              \E c \in CacheClients :
                  /\ cpc[c] = "commit"
                  /\ cpc'[c] = "idle"
                  /\ GetKey(pend[c].service, pend[c].lat, pend[c].lon) = k

C10_EntriesPersist == [](C10_GetAfterSet) /\ [][C10_Frame]_vars

(* Time has passed since a key was set, another key has been set since,    *)
(* and a get for the first key has just returned its document.              *)
C10_Witness ==
    /\ ret # None /\ ret.op = "get" /\ ret.ok /\ ret.val # None
    /\ \E row \in table : row.key = ret.key /\ row.ts < now
    /\ \E row \in table : row.key # ret.key /\ row.ts = now

---------------------------------------------------------------------------
(* Claims about the analyzers of the app service, checked under            *)
(* SpecAnalyzer.                                                            *)

(* The call of analyzer d in progress repeats its previous call's point.   *)
SamePointAsPrev(d) ==
    /\ prev[d] # None
    /\ prev[d].lat = th[d].lat
    /\ prev[d].lon = th[d].lon

(* Analyzer d takes its cache.get step. *)
GetStep(d) == th[d].pc = "get" /\ th'[d].pc # "get" /\ last'.d = d

(* Analyzer d takes its cache.set step. *)
SetStep(d) == th[d].pc = "set" /\ th'[d].pc = "done" /\ last'.d = d

(* No upstream change is visible between the two calls: the upstream      *)
(* answer the call in progress got, if it asked, is the one its previous    *)
(* call got.                                                                *)
UpstreamUnchanged(d) == th[d].up = None \/ th[d].up = prev[d].up

(* C3 as stated: whenever a call of an analyzer ends that repeats the      *)
(* point of the analyzer's previous call, with no upstream change between   *)
(* the two, it ends as the previous call did and has issued no upstream     *)
(* query.                                                                   *)
C3_SecondCallIdentical ==
    \A d \in Services :
        (/\ th[d].pc = "done"
         /\ SamePointAsPrev(d)
         /\ UpstreamUnchanged(d))
        => th[d].out = prev[d].out /\ th[d].nq = 0

(* C3 amended: if the previous call of the analyzer at the same point       *)
(* returned a result and the cache held that result when it returned, and   *)
(* the cache read of the next call meets no storage error, then the next    *)
(* call returns the identical result at once, with zero upstream queries.   *)
C3_Step ==
    \A d \in Services :
        (/\ GetStep(d)
         /\ last'.fault = "ok"
         /\ SamePointAsPrev(d)
         /\ prev[d].stored)
        => /\ th'[d].pc = "done"
           /\ th'[d].out = prev[d].out
           /\ th'[d].nq = 0

C3_CachedCallIdentical == [][C3_Step]_vars

(* A second call at the point of a stored first call has returned. *)
C3_Witness ==
    \E d \in Services :
        /\ th[d].pc = "done"
        /\ SamePointAsPrev(d)
        /\ prev[d].stored
        /\ last = Step(d, "get", "ok")
        /\ th[d].out = prev[d].out

(* C6 as stated: an upstream query that errors or returns no data does     *)
(* not abort the analyzer: every call that has issued its query ends by     *)
(* returning a result.                                                      *)
C6_QueryFailureDoesNotAbort ==
    \A d \in Services :
        th[d].pc = "done" /\ th[d].nq > 0 => th[d].out.kind = "return"

(* C7: DiskCache.get under a storage error or with an undecodable value    *)
(* returns None and raises nothing, whatever the table holds; and the       *)
(* analyzer whose cache read failed goes on as after a miss: past           *)
(* _require_ee to its upstream query.                                       *)
C7_GetFaultIsNone ==
    \A d \in Services, la \in ReqLats, lo \in ReqLons :
        /\ DiskCacheGet(table, d, la, lo, "io") = None
        /\ DiskCacheGet(table, d, la, lo, "decode") = None

C7_Step ==
    \A d \in Services :
        GetStep(d) /\ last'.fault # "ok" =>
            IF th[d].ee
            THEN th'[d].pc = "query" /\ th'[d].out = None
            ELSE th'[d].out = Raise("RuntimeError")

C7_GetErrorIsMiss == [](C7_GetFaultIsNone) /\ [][C7_Step]_vars

(* A cache read has failed on a key the table holds, and the analyzer is   *)
(* about to query upstream.                                                 *)
C7_Witness ==
    /\ last # None
    /\ last.op = "get"
    /\ last.fault # "ok"
    /\ th[last.d].pc = "query"
    /\ RowsOf(table, GetKey(last.d, th[last.d].lat, th[last.d].lon)) # {}

(* C8: a set that meets an error leaves the table as it was, and whether   *)
(* or not the set succeeds the analyzer returns the result it computed.     *)
C8_Step ==
    \A d \in Services :
        SetStep(d) =>
            /\ th'[d].out = Return(th[d].res)
            /\ last'.fault # "ok" => table' = table

C8_SetErrorSwallowed == [][C8_Step]_vars

(* A set has failed on a key holding another document, and the analyzer    *)
(* has returned the result it computed.                                     *)
C8_Witness ==
    /\ last # None
    /\ last.op = "set"
    /\ last.fault = "io"
    /\ th[last.d].pc = "done"
    /\ th[last.d].out = Return(th[last.d].res)
    /\ \E row \in table :
          /\ row.key = GetKey(last.d, th[last.d].lat, th[last.d].lon)
          /\ row.value # JsonDumps(th[last.d].res)

---------------------------------------------------------------------------
(* Claims about /analyze, checked under Spec (the app) and SpecLegacy (the *)
(* stand-alone app).                                                        *)

(* C1: when AssessmentService.analyze has built its report, the section of *)
(* each domain whose analyzer raised is the empty dict and its component    *)
(* score 0; the section of each other domain is exactly what its analyzer   *)
(* returned and its component the score read from it; and overall_score is  *)
(* 0.35 solar + 0.35 wind + 0.30 water of these components, rounded to one  *)
(* decimal, with the rating of its band.                                    *)
C1_PartialFailureIsolated ==
    req.pc = "joined" =>
        LET report == req.report
            c == report.components
        IN  /\ \A d \in Services :
                  IF th[d].out.kind = "raise"
                  THEN report[d] = EmptyDict /\ c[d] = 0
                  ELSE /\ report[d] = th[d].out.doc
                       /\ c[d] = th[d].out.doc[ScoreKey(d)]
            /\ Abs(100 * report.overall_score
                   - (35 * c.solar + 35 * c.wind + 30 * c.water)) <= 50
            /\ report.rating = Rating(report.overall_score)

(* analyze has returned a report for which exactly one analyzer raised and *)
(* the other two returned results with scores.                              *)
C1_Witness ==
    /\ req.pc = "joined"
    /\ Cardinality({d \in Services : th[d].out.kind = "raise"}) = 1
    /\ \A d \in Services :
          th[d].out.kind = "return" => req.report.components[d] > 0
    /\ req.report.overall_score > 0

(* C2 as stated: no /analyze request of the app ends with an exception at  *)
(* the HTTP boundary: every response is a report.                           *)
C2_NoExceptionAtHttpBoundary ==
    resp # None => resp.kind = "report"

(* C5 as stated: an /analyze request during which every upstream provider  *)
(* call failed answers with a report whose wind, solar and water scores     *)
(* and overall_score are 0 and whose rating is CHALLENGING.                 *)
C5_TotalOutageAllZero ==
    (req.pc = "done" /\ req.upcalls > 0 /\ ~ req.upok) =>
        /\ resp.kind = "report"
        /\ resp.components = [solar |-> 0, wind |-> 0, water |-> 0]
        /\ resp.overall_score = 0
        /\ resp.rating = "CHALLENGING"

---------------------------------------------------------------------------
(* Claims about the fallback pipeline, checked under Spec.                  *)

(* The top-level fields of the section the primary analyzer of a domain    *)
(* returns.                                                                 *)
PrimaryKeys(d) ==
    UNION {AnalyzerResult(d, u.v).keys : u \in {x \in EeOutcomes(d) : x.kind = "values"}}

FallbackLabel == "open-meteo+pvgis-fallback"

Section(report, d) ==
    CASE d = "wind" -> report.wind
      [] d = "solar" -> report.solar
      [] d = "water" -> report.water

(* _analyze_fallback answers the request. *)
FallbackStep == req.pc = "fallback" /\ req'.pc = "done"

(* C11 as stated: every report tagged with the fallback source label has,  *)
(* in each of its wind, solar and water sections, every field of the       *)
(* primary pipeline's section for that domain.                              *)
C11_FallbackHasAllFields ==
    (resp # None /\ resp.kind = "report" /\ resp.source = FallbackLabel)
        => \A d \in Services : PrimaryKeys(d) \subseteq Section(resp, d).keys

C11_Step ==
    FallbackStep =>
        /\ resp'.kind = "report"
        /\ resp'.source = FallbackLabel
        /\ \A d \in Services :
              \/ Section(resp', d) = EmptyDict
              \/ PrimaryKeys(d) \subseteq Section(resp', d).keys

(* C11, amended: the report the fallback pipeline returns is tagged with   *)
(* the fallback source label, and each of its wind, solar and water        *)
(* sections is either empty (its fallback provider gave nothing) or has    *)
(* every top-level field of the primary pipeline's section for that domain. *)
C11_FallbackSectionsEmptyOrComplete == [][C11_Step]_vars

(* A fallback report all three of whose sections were filled. *)
C11_Witness ==
    /\ resp # None /\ resp.kind = "report" /\ resp.source = FallbackLabel
    /\ \A d \in Services :
          /\ Section(resp, d) # EmptyDict
          /\ PrimaryKeys(d) \subseteq Section(resp, d).keys

---------------------------------------------------------------------------
(* SpecLive: the app with time-outs in view.  reduceRegion(...).getInfo()  *)
(* is called with no deadline (none is passed and none is configured on    *)
(* the client), so besides answering or raising, the call may never        *)
(* return: the analyzer's thread then stays in it for good.  Fairness: a   *)
(* thread that can take its next step does take it; no request need arrive. *)
AnalyzerHang(d) ==
    /\ th[d].pc = "query"
    /\ th' = [th EXCEPT ![d] = [@ EXCEPT !.pc = "hung", !.nq = @ + 1]]
    /\ last' = Step(d, "query", "hang")
    /\ UNCHANGED <<table, ops, svc, gee, req, prev, resp, lru>>
    /\ UNCHANGED cacheVars
    /\ UNCHANGED sideVars

NextLive ==
    \/ Next
    \/ \E d \in Services : AnalyzerHang(d)

FairLive ==
    /\ \A d \in Services :
          WF_vars(AnalyzerGet(d)) /\ WF_vars(AnalyzerQuery(d)) /\ WF_vars(AnalyzerSet(d))
    /\ WF_vars(AnalyzeReturn)
    /\ WF_vars(ApiSupplement)
    /\ WF_vars(AnalyzeFallback)

SpecLive == Init /\ [][NextLive]_vars /\ FairLive

(* The same threads when every upstream call comes back. *)
SpecBounded == Init /\ [][Next]_vars /\ FairLive

InFlight == req.pc \in {"primary", "joined", "fallback"}

(* C12: an /analyze request in progress eventually returns, whatever the   *)
(* upstream providers do, because every call to them is bounded by a       *)
(* time-out.                                                                *)
C12_AnalyzeEventuallyReturns == InFlight ~> (req.pc = "done")

---------------------------------------------------------------------------
(* SpecScore: the scoring code applied to sample inputs, one application   *)
(* per behaviour.  calc holds the function applied and its result.          *)

(* Scores an analyzer or a fallback helper may report, in tenths. *)
SampleScores == {0, 449, 450, 599, 600, 700, 749, 750, 800, 900, 1000}

(* A section carrying a score. *)
ScoreDict(d, x) ==
    IF d = "water"
    THEN [kind |-> "dict", keys |-> {"composite_risk_score"}, composite_risk_score |-> x]
    ELSE [kind |-> "dict", keys |-> {"score"}, score |-> x]

(* How an analyzer's future may end. *)
SampleOutcomes(d) == {Raise("upstream")} \cup {Return(ScoreDict(d, x)) : x \in SampleScores}

(* What a fallback helper may hand back. *)
SampleHelped(d) == {None} \cup {ScoreDict(d, x) : x \in SampleScores}

InitScore ==
    /\ table = {}
    /\ now = 0
    /\ lock = "free"
    /\ cpc = [c \in CacheClients |-> "idle"]
    /\ pend = [c \in CacheClients |-> None]
    /\ ret = None
    /\ committed = [k \in CacheKeys |-> None]
    /\ ops = 0
    /\ svc = None
    /\ gee = {}
    /\ req = ReqIdle
    /\ th = [d \in Services |-> ThreadIdle]
    /\ last = None
    /\ prev = [d \in Services |-> None]
    /\ resp = None
    /\ lru = [d \in Services |-> {}]
    /\ calc = None
    /\ txn = [c \in CredClients |-> TxnIdle]
    /\ eelib = [initialized |-> FALSE, attempts |-> 0, redundant |-> 0]

(* AssessmentService.analyze on three futures. *)
EvalAnalyze ==
    /\ calc = None
    /\ \E w \in SampleOutcomes("wind"), so \in SampleOutcomes("solar"),
          wt \in SampleOutcomes("water") :
          \E report \in AnalyzeReports(w, so, wt) :
             calc' = [fn |-> "analyze", out |-> report]
    /\ UNCHANGED <<table, ops, txn, eelib>>
    /\ UNCHANGED cacheVars
    /\ UNCHANGED appVars

(* _analyze_fallback on what its three helpers gave. *)
EvalFallback ==
    /\ calc = None
    /\ \E ul \in LiveOutcomes, so \in SampleHelped("solar"), wt \in SampleHelped("water") :
          \E report \in FallbackReports(GetLiveForecast(ul), so, wt) :
             calc' = [fn |-> "fallback", out |-> report]
    /\ UNCHANGED <<table, ops, txn, eelib>>
    /\ UNCHANGED cacheVars
    /\ UNCHANGED appVars

(* Raw metrics handed to the scoring code: ordinary values, the values at  *)
(* the thresholds, zero, and values far outside any physical range.         *)
(* Units: pd W/m2, ws 1/10 m/s, rix and cf 1/100, slope degree; ghi         *)
(* kWh/m2/year, ghi_day and pvout 1/10 kWh/day, cloud percent, aod 1/100;   *)
(* grace and lwe cm, pdsi 1, et0 and precip mm/day, precip_day 1/10 mm/day, *)
(* deficit mm, soil kg/m2, occurrence percent.                               *)
Nums(S) == {Num(x) : x \in S}

RawWind ==
    [pd : Nums({-1000, 0, 99, 100, 199, 200, 300, 400, 599, 600, 20000}),
     ws : Nums({-50, 0, 35, 80, 120, 10000}),
     rix : Nums({-10, 0, 25, 50, 1000}),
     cf : Nums({0, 25, 50, 500}),
     slope : Nums({0, 20})]

RawLive ==
    [ws80 : Nums({0, 3, 10, 50}), ws120 : Nums({0, 5, 12, 50}),
     ad : Nums({0, 1225, 2000})]

RawSolar ==
    [ghi : Nums({-1000, 0, 1399, 1400, 1600, 1800, 2000, 20000}),
     ghi_day : Nums({-100, 0, 30, 50, 70, 10000}),
     pvout : Nums({-100, 0, 40, 55, 10000}),
     cloud_pct : Nums({-100, 0, 35, 100, 1000}),
     aod : Nums({-100, 0, 40, 80, 1000}),
     slope : Nums({-10, 0, 15, 30, 1000})]

RawWater ==
    [grace : Nums({-20000, -51, 0, 20, 20000}),
     pdsi : Nums({-3000, -6, 0, 3, 3000}),
     et0 : Nums({-100, 0, 4, 10, 1000}),
     precip : Nums({-100, 0, 10, 20, 1000}),
     precip_day : Nums({-100, 0, 50, 10000}),
     deficit : Nums({-100, 0, 20, 10000}),
     soil : Nums({-100, 0, 130, 10000}),
     occurrence : Nums({0, 20, 1000})]

(* The wind scoring of analyze_wind and of _wind_cached on the same bands. *)
EvalWind ==
    /\ calc = None
    /\ \E raw \in RawWind :
          calc' = [fn |-> "wind", in |-> raw,
                   out |-> [primary |-> WindResult([pd |-> raw.pd, slope |-> raw.slope]),
                            legacy |-> WindCached(UpValues(
                                [ws_100 |-> raw.ws, pd_100 |-> raw.pd, rix |-> raw.rix,
                                 cf_best |-> raw.cf, slope |-> raw.slope]))]]
    /\ UNCHANGED <<table, ops, txn, eelib>>
    /\ UNCHANGED cacheVars
    /\ UNCHANGED appVars

(* _compute_wind_from_live_data on a live forecast. *)
EvalLiveWind ==
    /\ calc = None
    /\ \E raw \in RawLive :
          calc' = [fn |-> "live_wind", in |-> raw,
                   out |-> [fallback |-> ComputeWindFromLiveData(
                                            GetLiveForecast(UpValues(raw)))]]
    /\ UNCHANGED <<table, ops, txn, eelib>>
    /\ UNCHANGED cacheVars
    /\ UNCHANGED appVars

(* The solar scoring of analyze_solar, _fetch_pvgis_solar and _solar_cached. *)
EvalSolar ==
    /\ calc = None
    /\ \E raw \in RawSolar :
          calc' = [fn |-> "solar", in |-> raw,
                   out |-> [primary |-> SolarResult([ghi |-> raw.ghi]),
                            fallback |-> FetchPvgisSolar(UpValues([ghi_y |-> raw.ghi])),
                            legacy |-> SolarCached(UpValues(
                                [ghi |-> raw.ghi_day, pvout |-> raw.pvout,
                                 slope |-> raw.slope, cloud_pct |-> raw.cloud_pct,
                                 aod |-> raw.aod]))]]
    /\ UNCHANGED <<table, ops, txn, eelib>>
    /\ UNCHANGED cacheVars
    /\ UNCHANGED appVars

(* The water scoring of analyze_water, _fetch_open_meteo_hydrology and     *)
(* _water_cached.                                                           *)
EvalWater ==
    /\ calc = None
    /\ \E raw \in RawWater :
          calc' = [fn |-> "water", in |-> raw,
                   out |-> [primary |-> WaterResult([grace |-> raw.grace, pdsi |-> raw.pdsi]),
                            fallback |-> FetchOpenMeteoHydrology(UpValues(
                                [et0 |-> raw.et0, precip |-> raw.precip])),
                            legacy |-> WaterCached(UpValues(
                                [precip |-> raw.precip_day, lwe |-> raw.grace,
                                 deficit |-> raw.deficit, soil |-> raw.soil,
                                 occurrence |-> raw.occurrence]))]]
    /\ UNCHANGED <<table, ops, txn, eelib>>
    /\ UNCHANGED cacheVars
    /\ UNCHANGED appVars

(* _analyze_wind_potential and _wind_grade on two inputs that differ only *)
(* in power density.                                                       *)
EvalWindPair ==
    /\ calc = None
    /\ \E raw \in RawWind : \E higher \in {r \in RawWind : r.pd.x >= raw.pd.x} :
          /\ higher = [raw EXCEPT !.pd = higher.pd]
          /\ calc' = [fn |-> "wind_pair", in |-> [lo |-> raw, hi |-> higher],
                      out |-> [r \in {"lo", "hi"} |->
                          LET x == IF r = "lo" THEN raw ELSE higher
                          IN  [primary |-> WindResult([pd |-> x.pd, slope |-> x.slope]),
                               legacy |-> WindCached(UpValues(
                                   [ws_100 |-> x.ws, pd_100 |-> x.pd, rix |-> x.rix,
                                    cf_best |-> x.cf, slope |-> x.slope]))]]]
    /\ UNCHANGED <<table, ops, txn, eelib>>
    /\ UNCHANGED cacheVars
    /\ UNCHANGED appVars

(* _fetch_db_credentials on sample table contents and lookup outcomes,    *)
(* and the service _get_assessment_service then constructs.                *)
EvalCredentials ==
    /\ calc = None
    /\ \E rows \in {{}, {GeeRow("c1", TRUE)}, {GeeRow("c1", FALSE)}},
          jsonq \in JsonLookups, legacyq \in LegacyLookups, build \in Builds :
          LET credentials_dict == FetchDbCredentials(rows, jsonq, legacyq)
          IN  calc' = [fn |-> "credentials",
                       in |-> [rows |-> rows, jsonq |-> jsonq, legacyq |-> legacyq,
                               build |-> build],
                       out |-> [credentials_dict |-> credentials_dict,
                                service |-> GetAssessmentService(
                                               None, credentials_dict, build).result]]
    /\ UNCHANGED <<table, ops, txn, eelib>>
    /\ UNCHANGED cacheVars
    /\ UNCHANGED appVars

NextScore ==
    \/ EvalAnalyze
    \/ EvalFallback
    \/ EvalWind
    \/ EvalLiveWind
    \/ EvalSolar
    \/ EvalWater
    \/ EvalWindPair
    \/ EvalCredentials

SpecScore == InitScore /\ [][NextScore]_vars

---------------------------------------------------------------------------
(* Claims about the composite and the rating, checked under SpecScore.     *)

IsReport(c) == c # None /\ c.fn \in {"analyze", "fallback"}

(* The tier of the specification that a rating label of the code spells. *)
TierOf(label) == IF label = "PREMIUM SITE" THEN "PREMIUM_SITE" ELSE label

(* x (tenths) is n (thousandths) rounded to one decimal. *)
RoundsTo(x, n) == Abs(100 * x - n) <= 50

(* C13: in every report, primary or fallback, overall_score is             *)
(* 0.35 solar + 0.35 wind + 0.30 water over the component scores, rounded  *)
(* to one decimal, the components being the scores of the three sections   *)
(* (0 for an empty one); wind 90, solar 80, water 70 give 80.5 and the     *)
(* PREMIUM_SITE rating.                                                     *)
C13_CompositeFormula ==
    IsReport(calc) =>
        LET r == calc.out
            c == r.components
        IN  /\ c.solar = DictGet(r.solar, "score", 0)
            /\ c.wind = DictGet(r.wind, "score", 0)
            /\ c.water = DictGet(r.water, "composite_risk_score", 0)
            /\ RoundsTo(r.overall_score, 35 * c.solar + 35 * c.wind + 30 * c.water)
            /\ (c.wind = 900 /\ c.solar = 800 /\ c.water = 700)
                  => (r.overall_score = 805 /\ TierOf(r.rating) = "PREMIUM_SITE")

(* Reports with the components of the example, from either pipeline's code. *)
C13_Witness ==
    /\ IsReport(calc)
    /\ calc.out.components = [solar |-> 800, wind |-> 900, water |-> 700]
    /\ calc.out.overall_score = 805

(* C14: in every report, primary or fallback, the rating is decided by     *)
(* overall_score alone: at least 75 PREMIUM_SITE, from 60 up to 75         *)
(* OPTIMAL, from 45 up to 60 VIABLE, below 45 CHALLENGING.                  *)
C14_RatingBoundaries ==
    IsReport(calc) =>
        LET o == calc.out.overall_score
            tier == TierOf(calc.out.rating)
        IN  /\ (o >= 750) => tier = "PREMIUM_SITE"
            /\ (o >= 600 /\ o < 750) => tier = "OPTIMAL"
            /\ (o >= 450 /\ o < 600) => tier = "VIABLE"
            /\ (o < 450) => tier = "CHALLENGING"

(* A fallback report whose overall_score is exactly 75.0. *)
C14_Witness ==
    /\ IsReport(calc)
    /\ calc.fn = "fallback"
    /\ calc.out.overall_score = 750
    /\ calc.out.rating = "PREMIUM SITE"

---------------------------------------------------------------------------
(* Claims about the domain scores, checked under SpecScore.                *)

IsScoring(c) == c # None /\ c.fn \in {"wind", "live_wind", "solar", "water"}

DomainOf(c) == IF c.fn = "live_wind" THEN "wind" ELSE c.fn

(* The scores an application of the scoring code produced, in tenths. *)
ScoresOf(c) ==
    IF IsReport(c)
    THEN {c.out.overall_score, c.out.components.wind, c.out.components.solar,
          c.out.components.water}
    ELSE IF IsScoring(c)
    THEN {DictGet(c.out[p], ScoreKey(DomainOf(c)), 0) : p \in DOMAIN c.out}
    ELSE {}

(* C15: every computed score - wind, solar, water, primary or fallback,    *)
(* and overall_score - lies in [0, 100], however large or negative the raw *)
(* metrics.                                                                 *)
C15_ScoresWithinBounds ==
    calc # None => \A x \in ScoresOf(calc) : 0 <= x /\ x <= 1000

(* Water scored on a groundwater anomaly and rainfall far beyond range. *)
C15_Witness ==
    /\ calc # None /\ calc.fn = "water"
    /\ calc.in.grace = Num(20000) /\ calc.in.pdsi = Num(3000)
    /\ calc.in.precip = Num(1000) /\ calc.in.et0 = Num(-100)
    /\ calc.out.primary.composite_risk_score = 1000
    /\ calc.out.fallback.composite_risk_score = 1000

AllZero(raw) == \A k \in DOMAIN raw : raw[k] = Num(0)

(* C16: when all raw metrics feeding a domain's score are zero, that       *)
(* domain's score is 0, for the wind, solar and water scoring alike.       *)
C16_ZeroMetricsScoreZero ==
    (IsScoring(calc) /\ AllZero(calc.in)) => ScoresOf(calc) = {0}

(* The order of the wind grade tiers: F < D < C < B < A < A+. *)
GradeRank(g) ==
    CASE g = "F" -> 0 [] g = "D" -> 1 [] g = "C" -> 2
      [] g = "B" -> 3 [] g = "A" -> 4 [] g = "A+" -> 5

(* C17: of two wind inputs that differ only in power density, the one with *)
(* the higher power density gets the same or a better wind grade.          *)
C17_GradeMonotone ==
    (calc # None /\ calc.fn = "wind_pair") =>
        \A p \in {"primary", "legacy"} :
            GradeRank(calc.out.lo[p].grade) <= GradeRank(calc.out.hi[p].grade)

(* A pair across the C/B threshold, graded by both services. *)
C17_Witness ==
    /\ calc # None /\ calc.fn = "wind_pair"
    /\ calc.in.lo.pd = Num(200) /\ calc.in.hi.pd = Num(300)
    /\ calc.in.lo.ws = calc.in.hi.ws /\ calc.in.lo.rix = calc.in.hi.rix
    /\ calc.out.lo.primary.grade = "C" /\ calc.out.hi.primary.grade = "B"
    /\ calc.out.lo.legacy.grade = "C" /\ calc.out.hi.legacy.grade = "B"

(* C18: the wind score of analyze_wind equals 0.40 norm(pd, 0, 600) +      *)
(* 0.30 norm(ws, 3.5, 12) + 0.20 norm(cf_best, 0, 0.5) + 0.10 norm(0.5 -   *)
(* clamp(rix, 0, 0.5), 0, 0.5), for the primary analyzer and for the wind  *)
(* result derived from live data.  The live result has rix = 0 and a       *)
(* capacity factor between 0 and 0.48, so its score has to lie between the *)
(* formula's values at cf_best = 0 and at cf_best = 0.5.                   *)
C18_WindScoreFormula ==
    /\ (calc # None /\ calc.fn = "wind") =>
            calc.out.primary.score =
                ComputeWindScore(calc.in.pd.x, calc.in.rix.x, calc.in.ws.x, calc.in.cf.x)
    /\ (calc # None /\ calc.fn = "live_wind") =>
            LET pd == LiveWindPd(GetLiveForecast(UpValues(calc.in)))
                ws == 5 * (calc.in.ws80.x + calc.in.ws120.x)
            IN  /\ ComputeWindScore(pd, 0, ws, 0) <= calc.out.fallback.score
                /\ calc.out.fallback.score <= ComputeWindScore(pd, 0, ws, 50)

---------------------------------------------------------------------------
InsightTags(report) == {report.insights[i] : i \in DOMAIN report.insights}

(* C19: in every report returned for an /analyze request, the insights     *)
(* hold the hybrid-site note whenever the wind and the solar score are     *)
(* both above 60, and the water-stress note whenever the water score is    *)
(* below 30.                                                                *)
C19_InsightsFollowScores ==
    (resp # None /\ resp.kind = "report") =>
        /\ (resp.components.wind > 600 /\ resp.components.solar > 600)
               => "Prime Hybrid Site" \in InsightTags(resp)
        /\ resp.components.water < 300
               => "Critical Resource Sync" \in InsightTags(resp)

---------------------------------------------------------------------------
(* SpecCred: the credential endpoints as database transactions.  Two       *)
(* requests may be in progress at once, each in its own session; every     *)
(* await on the session is a point where the other may run.  The database  *)
(* is PostgreSQL at its default isolation (read committed): `gee` holds    *)
(* the committed rows, a transaction's own changes stay in `txn` until its *)
(* commit, an UPDATE or DELETE waits for a row another transaction has     *)
(* changed, and an UPDATE sees the rows of the snapshot taken when it      *)
(* started, rechecking each against its latest committed version.  Row     *)
(* ids are fresh (gen_random_uuid()): the n-th create request inserts n.   *)
MaxCreates == 3

Ended(outcome) == [pc |-> "idle", out |-> outcome]

(* The rows a transaction has changed and not yet committed. *)
Locks(c) == IF txn[c].pc \in {"flushed", "inserted"} THEN txn[c].deact ELSE {}

ActiveIds(rows) == {row.id : row \in {r \in rows : r.active}}

SingleActiveViolatorsNoIndex(rows, deact) == {}

(* idx_gee_json_creds_single_active, a unique index on (is_active) over    *)
(* the rows with is_active = TRUE: the committed rows that an insert of an *)
(* active row collides with, `deact` being the rows the inserting          *)
(* transaction has itself set inactive.                                     *)
SingleActiveViolators(rows, deact) == {i \in ActiveIds(rows) : i \notin deact}

(* create_gee_credential, `UPDATE .. SET is_active = false WHERE is_active` *)
(* is sent: its snapshot fixes the rows it will visit.                      *)
CreateUpdate(c) ==
    /\ txn[c].pc = "idle"
    /\ ops < MaxCreates
    /\ ops' = ops + 1
    /\ txn' = [txn EXCEPT ![c] = [pc |-> "update", out |-> "none", id |-> ops + 1,
                                  targets |-> ActiveIds(gee)]]
    /\ UNCHANGED <<table, svc, gee, req, th, last, prev, resp, lru, calc, eelib>>
    /\ UNCHANGED cacheVars

(* The UPDATE and the flush finish once no visited row is held by another  *)
(* transaction; a row that is no longer active, or gone, is skipped.        *)
CreateFlush(c) ==
    /\ txn[c].pc = "update"
    /\ \A o \in CredClients \ {c} : txn[c].targets \cap Locks(o) = {}
    /\ txn' = [txn EXCEPT ![c] = [pc |-> "flushed", out |-> "none", id |-> txn[c].id,
                                  deact |-> txn[c].targets \cap ActiveIds(gee)]]
    /\ UNCHANGED <<table, ops, svc, gee, req, th, last, prev, resp, lru, calc, eelib>>
    /\ UNCHANGED cacheVars

(* db.add(new_cred) and the INSERT that db.commit() flushes first.  The    *)
(* insert waits while another transaction's insert of an active row is     *)
(* undecided; a committed active row makes it fail with IntegrityError,    *)
(* the session is rolled back and the request answers 500.                  *)
CreateInsert(c) ==
    /\ txn[c].pc = "flushed"
    /\ \A o \in CredClients \ {c} : txn[o].pc # "inserted"
    /\ txn' = [txn EXCEPT ![c] =
                  IF SingleActiveViolators(gee, txn[c].deact) # {}
                  THEN Ended("IntegrityError")
                  ELSE [txn[c] EXCEPT !.pc = "inserted"]]
    /\ UNCHANGED <<table, ops, svc, gee, req, th, last, prev, resp, lru, calc, eelib>>
    /\ UNCHANGED cacheVars

(* The COMMIT, db.refresh and the reset of the service singleton. *)
CreateCommit(c) ==
    /\ txn[c].pc = "inserted"
    /\ gee' = {GeeRow(row.id, row.active /\ row.id \notin txn[c].deact) : row \in gee}
               \cup {GeeRow(txn[c].id, TRUE)}
    /\ svc' = None
    /\ txn' = [txn EXCEPT ![c] = Ended("201")]
    /\ UNCHANGED <<table, ops, req, th, last, prev, resp, lru, calc, eelib>>
    /\ UNCHANGED cacheVars

(* delete_gee_credential, the SELECT by id: 404 when there is no such row. *)
DeleteSelect(c, id) ==
    /\ txn[c].pc = "idle"
    /\ txn' = [txn EXCEPT ![c] =
                  IF \E row \in gee : row.id = id
                  THEN [pc |-> "selected", out |-> "none", del |-> id]
                  ELSE Ended("404")]
    /\ UNCHANGED <<table, ops, svc, gee, req, th, last, prev, resp, lru, calc, eelib>>
    /\ UNCHANGED cacheVars

(* db.delete(row) and db.commit(): the DELETE waits for a row another      *)
(* transaction has changed; when the row is gone by then the unit of work  *)
(* raises (no row matched) and the request answers 500.                     *)
DeleteCommit(c) ==
    /\ txn[c].pc = "selected"
    /\ \A o \in CredClients \ {c} : txn[c].del \notin Locks(o)
    /\ IF \E row \in gee : row.id = txn[c].del
       THEN /\ gee' = {row \in gee : row.id # txn[c].del}
            /\ svc' = None
            /\ txn' = [txn EXCEPT ![c] = Ended("204")]
       ELSE /\ txn' = [txn EXCEPT ![c] = Ended("StaleDataError")]
            /\ UNCHANGED <<svc, gee>>
    /\ UNCHANGED <<table, ops, req, th, last, prev, resp, lru, calc, eelib>>
    /\ UNCHANGED cacheVars

NextCred ==
    \/ \E c \in CredClients : CreateUpdate(c)
    \/ \E c \in CredClients : CreateFlush(c)
    \/ \E c \in CredClients : CreateInsert(c)
    \/ \E c \in CredClients : CreateCommit(c)
    \/ \E c \in CredClients, id \in 1..MaxCreates : DeleteSelect(c, id)
    \/ \E c \in CredClients : DeleteCommit(c)

SpecCred == Init /\ [][NextCred]_vars

(* C20: at most one row of gee_json_credentials has is_active = true at    *)
(* any time, after any sequence of create and delete requests, overlapping *)
(* ones included.                                                           *)
C20_AtMostOneActive == Cardinality(ActiveIds(gee)) <= 1

(* Two creates overlapped: one committed its row, the other's insert was   *)
(* refused by the index, and one active row is left.                        *)
C20_Witness ==
    /\ txn["r1"].out = "201" /\ txn["r2"] = Ended("IntegrityError")
    /\ Cardinality(gee) >= 2
    /\ Cardinality(ActiveIds(gee)) = 1

---------------------------------------------------------------------------
(* Claims about the service singleton, checked under Spec.                 *)

(* A step in which api_analyze starts handling a request. *)
AnalyzeStarts == req.pc \in {"idle", "done"} /\ ops' = ops + 1

(* The request got no further than _get_assessment_service. *)
RefusedWith(r, what) == r # None /\ r.kind = "http_error" /\ r.what = what

C21_Step ==
    (AnalyzeStarts /\ svc = None /\ ActiveIds(gee) # {})
        => /\ ~ RefusedWith(resp', "TypeError")
           /\ (req'.pc = "primary" => svc' # None /\ svc'.ee)

(* C21: after create_gee_credential has stored a credential and reset the  *)
(* singleton, the next /analyze request constructs a new AssessmentService *)
(* with the stored credential: the construction is not refused, and a      *)
(* request that goes on to the primary pipeline runs it on the newly       *)
(* constructed, initialised service.                                        *)
C21_NextAnalyzeUsesNewCredential == [][C21_Step]_vars

(* PRIMARY_AVAILABLE: the singleton holds an initialised service. *)
PrimaryAvailable(g) == g # None /\ g.ee

C22_Step ==
    PrimaryAvailable(svc) =>
        /\ svc' = svc \/ (svc' = None /\ gee' # gee)
        /\ AnalyzeStarts =>
               /\ svc' = svc
               /\ req'.pc = "primary"
               /\ \A d \in Services : th'[d].ee

---------------------------------------------------------------------------
(* SpecResolve: /analyze requests that overlap, up to the choice of the    *)
(* pipeline.  api_analyze is a coroutine: another request can run at its   *)
(* awaits (the credential lookup, the analysis handed to a thread), while  *)
(* _get_assessment_service is a plain call and runs on the event loop      *)
(* without interruption.  `txn` holds each request's position, `eelib`     *)
(* whether ee.Initialize has succeeded in this process, how often an       *)
(* AssessmentService was constructed, and how often while an initialised   *)
(* one was already installed.                                               *)
MaxArrivals == 3

(* api_analyze up to `await _fetch_db_credentials(db)`. *)
AnalyzeArrive(c) ==
    /\ txn[c].pc = "idle"
    /\ ops < MaxArrivals
    /\ ops' = ops + 1
    /\ \E jsonq \in JsonLookups, legacyq \in LegacyLookups :
          txn' = [txn EXCEPT ![c] =
                     [pc |-> "fetched", out |-> "none",
                      found |-> (svc # None /\ svc.ee),
                      credentials_dict |-> FetchDbCredentials(gee, jsonq, legacyq)]]
    /\ UNCHANGED <<table, svc, gee, req, th, last, prev, resp, lru, calc, eelib>>
    /\ UNCHANGED cacheVars

(* _get_assessment_service and the choice of the pipeline.  A failed       *)
(* ee.Initialize on an initialised library may leave it in either state.   *)
AnalyzeResolve(c) ==
    /\ txn[c].pc = "fetched"
    /\ \E build \in Builds :
          LET got == GetAssessmentService(svc, txn[c].credentials_dict, build)
              service == got.result
          IN  /\ svc' = got.global
              /\ \E kept \in BOOLEAN :
                    eelib' = [initialized |->
                                  IF got.built /\ build = "ok" THEN TRUE
                                  ELSE IF got.built /\ build = "ee_error"
                                  THEN eelib.initialized /\ kept
                                  ELSE eelib.initialized,
                              attempts |-> eelib.attempts + (IF got.built THEN 1 ELSE 0),
                              redundant |-> eelib.redundant +
                                  (IF got.built /\ svc # None /\ svc.ee THEN 1 ELSE 0)]
              /\ txn' = [txn EXCEPT ![c] =
                            IF service.kind = "raise" /\ service.what # "ImportError"
                            THEN Ended(service.what)
                            ELSE IF service.kind = "raise" \/ ~ service.ee
                            THEN Ended("fallback")
                            ELSE [pc |-> "primary", out |-> "none",
                                  found |-> txn[c].found, service |-> service]]
    /\ UNCHANGED <<table, ops, gee, req, th, last, prev, resp, lru, calc>>
    /\ UNCHANGED cacheVars

(* service.analyze, run in a thread, returns. *)
AnalyzeFinish(c) ==
    /\ txn[c].pc = "primary"
    /\ txn' = [txn EXCEPT ![c] = Ended("primary")]
    /\ UNCHANGED <<table, ops, svc, gee, req, th, last, prev, resp, lru, calc, eelib>>
    /\ UNCHANGED cacheVars

NextResolve ==
    \/ \E c \in CredClients : AnalyzeArrive(c)
    \/ \E c \in CredClients : AnalyzeResolve(c)
    \/ \E c \in CredClients : AnalyzeFinish(c)

SpecResolve == Init /\ [][NextResolve]_vars

(* C23: when several /analyze requests arrive while the provider is not    *)
(* yet available, every interleaving makes at most one redundant           *)
(* initialisation attempt and leaves no handle marked available whose      *)
(* client is not initialised and no request running the primary analyzers  *)
(* on an uninitialised client.                                              *)
C23_ConcurrentFirstUseSafe ==
    /\ eelib.redundant <= 1
    /\ (svc # None /\ svc.ee) => eelib.initialized
    /\ \A c \in CredClients :
          txn[c].pc = "primary" => txn[c].service.ee /\ eelib.initialized

(* Two requests that both arrived before the provider was available are    *)
(* both running the primary analyzers, after a single construction.        *)
C23_Witness ==
    /\ \A c \in CredClients : txn[c].pc = "primary" /\ ~ txn[c].found
    /\ eelib.attempts = 1 /\ eelib.initialized

---------------------------------------------------------------------------
(* Claims about AssessmentService.analyze and its three analyzers.         *)

Running(d) == th[d].pc \notin {"idle", "done"}

(* C24: AssessmentService.analyze computes the composite score and         *)
(* produces its report only after each of the three analyzers has returned *)
(* or raised; no report is produced while an analyzer is still running.    *)
C24_ReportAfterAllAnalyzers ==
    /\ (\E d \in Services : Running(d)) => req.pc = "primary" /\ req.report = None
    /\ req.pc = "joined" =>
           /\ req.report # None
           /\ \A d \in Services :
                  th[d].pc = "done" /\ th[d].out.kind \in {"return", "raise"}

(* The report of a request one of whose analyzers raised and another of    *)
(* which wrote its result to the cache as the last of the three.           *)
C24_Witness ==
    /\ req.pc = "joined" /\ req.report # None
    /\ th["wind"].out.kind = "raise"
    /\ th["water"].out.kind = "return"
    /\ last # None /\ last.d = "water" /\ last.op = "set"

(* The cache key an analyzer of the request in progress reads and writes. *)
KeyOf(d) == GetKey(d, th[d].lat, th[d].lon)

C25_Step ==
    /\ \A d \in Services :
          (req.pc = "primary" /\ req'.pc = "primary" /\ th'[d] # th[d]) =>
              /\ \A e \in Services \ {d} :
                    /\ th'[e] = th[e]
                    /\ SqlSelectValue(table', KeyOf(e)) = SqlSelectValue(table, KeyOf(e))
              /\ {row \in table' : row.key # KeyOf(d)} =
                     {row \in table : row.key # KeyOf(d)}
              /\ svc' = svc /\ req' = req
    /\ (req.pc = "primary" /\ req'.pc = "joined") =>
              /\ table' = table
              /\ \A d \in Services : Section(req'.report, d) = FutureData(th[d].out)

(* C25: the three analyzers are independent and commutative.  A step of    *)
(* one analyzer changes nothing another analyzer reads or has computed:    *)
(* not its position, its result or the cache row under its key, nor any    *)
(* other cache row; and the report takes each section from that analyzer's *)
(* own outcome.  So for fixed upstream responses and a fixed initial cache *)
(* the report and the final cache content are the same for every           *)
(* interleaving and completion order.                                       *)
C25_AnalyzersCommute == [][C25_Step]_vars

(* The water analyzer, submitted last, has finished and written its row    *)
(* while the wind analyzer has not yet read the cache and the solar        *)
(* analyzer waits for its query.                                            *)
C25_Witness ==
    /\ req.pc = "primary"
    /\ th["water"].pc = "done" /\ th["water"].out.kind = "return"
    /\ SqlSelectValue(table, KeyOf("water")) # None
    /\ th["wind"].pc = "get" /\ th["solar"].pc = "query"

---------------------------------------------------------------------------
(* C26: credential resolution follows a fixed priority: the active         *)
(* gee_json_credentials row if there is one, otherwise the active          *)
(* google_service_credentials row if it has client_email and private_key,  *)
(* otherwise (no credentials dict) the key file on disk; a failure while   *)
(* reading a higher-priority source falls through to the next source.      *)
C26_CredentialPriority ==
    (calc # None /\ calc.fn = "credentials") =>
        calc.out.credentials_dict =
            IF calc.in.jsonq = "ok" /\ ActiveIds(calc.in.rows) # {}
            THEN Creds("gee_json_credentials")
            ELSE IF calc.in.legacyq = "found"
            THEN Creds("google_service_credentials")
            ELSE None

---------------------------------------------------------------------------
(* The score of a section of a report (0 for an empty section). *)
SectionScore(report, d) == DictGet(Section(report, d), ScoreKey(d), 0)

(* C27: every report /analyze returns is consistent with itself: the       *)
(* components equal the scores of the wind, solar and water sections of    *)
(* the same response, and overall_score and rating are the weighted        *)
(* composite of those section scores, also when the wind section was       *)
(* filled in from live weather data.                                        *)
C27_ReportConsistent ==
    (resp # None /\ resp.kind = "report") =>
        /\ resp.components.wind = SectionScore(resp, "wind")
        /\ resp.components.solar = SectionScore(resp, "solar")
        /\ resp.components.water = SectionScore(resp, "water")
        /\ resp.overall_score \in CompositeScores(SectionScore(resp, "solar"),
                                                  SectionScore(resp, "wind"),
                                                  SectionScore(resp, "water"))
        /\ resp.rating = Rating(resp.overall_score)

---------------------------------------------------------------------------
(* The documents the primary pipeline's analyzers produce. *)
PrimaryResults ==
    UNION {{AnalyzerResult(d, u.v) : u \in {x \in EeOutcomes(d) : x.kind = "values"}}
           : d \in Services}

C28_Step ==
    /\ (req'.pc = "fallback" /\ AnalyzeStarts) \/ FallbackStep =>
           /\ table' = table
           /\ last' = last
           /\ th' = th
    /\ \A row \in table' : JsonLoads(row.value) \in PrimaryResults

(* C28: when the primary provider is unavailable, handling an /analyze     *)
(* request neither reads nor writes the cache (no analyzer runs, no cache  *)
(* call is made, the table is unchanged), so the cache only ever holds     *)
(* results produced by the primary Earth Engine pipeline.                  *)
C28_FallbackLeavesCacheAlone == [][C28_Step]_vars

(* A fallback report returned while the cache holds rows that an earlier   *)
(* request's primary analyzers wrote.                                       *)
C28_Witness ==
    /\ req.pc = "done" /\ ops = 2
    /\ resp # None /\ resp.kind = "report" /\ resp.source = FallbackLabel
    /\ ~ (svc # None /\ svc.ee)
    /\ table # {}

---------------------------------------------------------------------------
(* Claims about what the stand-alone analyzers memoize.                    *)

(* The outcomes of an analyzer's run in which some sub-query failed. *)
FailedSubQuery(d) ==
    {u \in LegacyOutcomes(d) : u.kind = "error" \/ \E f \in DOMAIN u.v : u.v[f] = None}

(* The results built from such a run. *)
ZeroDefaulted(d) == {LegacyCachedResult(d, u) : u \in FailedSubQuery(d)}

C29_Step ==
    \A d \in {"solar", "water"} :
        (th[d].pc = "set" /\ th'[d].pc = "done" /\ table' # table)
            => th[d].res \notin ZeroDefaulted(d)

(* C29: in backend/assessment_service.py a solar or water result is        *)
(* written to the persistent cache only if every upstream sub-query that   *)
(* contributed to it succeeded; a result holding zero defaults of failed   *)
(* sub-queries is never written.                                            *)
C29_OnlyCompleteResultsCached == [][C29_Step]_vars

C30_Step ==
    (th["wind"].pc = "cached" /\ th'["wind"].pc = "done")
        => th'["wind"].nq = th["wind"].nq + 1

(* C30: in backend/assessment_service.py a failed wind analysis is never   *)
(* memoized: every analyze_wind call that gets past the disk cache and     *)
(* returns no result has queried the upstream provider itself, also when   *)
(* an earlier call for the same location returned no result.               *)
C30_FailedWindRequeried == [][C30_Step]_vars

===========================================================================
